---- MODULE Spec2Model ----
(***************************************************************************)
(* The MCP stdio server (server.js), the Tool Catalog (tools.js) and the   *)
(* HTTP bridge (bridge.js, in its two variants) of pulsar-claude-chat,     *)
(* as one state machine.                                                   *)
(*                                                                         *)
(* JSON values are tagged records, JSON texts are sequences of string      *)
(* fragments, and a message of an Error is the sequence of the fragments   *)
(* its template literal concatenates.                                      *)
(***************************************************************************)
EXTENDS Integers, Sequences, FiniteSets, TLC

\* Number of input lines the agent writes to the stdio server's stdin.
MaxLines == 2
\* Number of requests other HTTP clients (curl, a browser) send to the bridge.
MaxHttp == 1
\* Number of input lines the agent writes while other HTTP clients are served.
MaxBridgeLines == 1
\* Number of windows of the host application, each with its own bridge
MaxWindows == 3
\* Number of times the stop of one bridge is called
MaxStops == 2
\* Connections of each kind that clients hold to one bridge
MaxConns == 1

(***************************************************************************)
(* JSON values                                                             *)
(***************************************************************************)
JUndef == [t |-> "undefined"]
JNull == [t |-> "null"]
JBool(b) == [t |-> "bool", b |-> b]
JNum(n) == [t |-> "num", n |-> n]
JStr(s) == [t |-> "str", s |-> s]
JArr(a) == [t |-> "arr", a |-> a]
\* An object is the sequence of its entries [k |-> key, v |-> value], in
\* insertion order.
JObj(o) == [t |-> "obj", o |-> o]

KV(k, v) == [k |-> k, v |-> v]

RECURSIVE Spaces(_)
Spaces(n) == IF n <= 0 THEN "" ELSE " " \o Spaces(n - 1)

\* The line break and indentation JSON.stringify(value, null, indent) puts
\* in front of a member at nesting depth d; nothing when indent is 0.
Gap(indent, d) == IF indent = 0 THEN <<>> ELSE <<"\n" \o Spaces(indent * d)>>

RECURSIVE Flatten(_)
Flatten(ss) == IF ss = <<>> THEN <<>> ELSE Head(ss) \o Flatten(Tail(ss))

\* The members JSON.stringify writes: those whose value is not undefined.
SelectEntries(o) == SelectSeq(o, LAMBDA e : e.v.t # "undefined")

RECURSIVE Ser(_, _, _)
\* JSON.stringify(v, null, indent) at nesting depth d, as text fragments.
\* undefined has no serialization: the empty text stands for the value
\* undefined that JSON.stringify returns.
Ser(v, indent, d) ==
    CASE v.t = "undefined" -> <<>>
      [] v.t = "null" -> <<"null">>
      [] v.t = "bool" -> <<IF v.b THEN "true" ELSE "false">>
      [] v.t = "num" -> <<ToString(v.n)>>
      [] v.t = "str" -> <<"\"" \o v.s \o "\"">>
      [] v.t = "arr" ->
           IF v.a = <<>> THEN <<"[]">>
           ELSE <<"[">>
                \o Flatten([i \in 1..Len(v.a) |->
                       Gap(indent, d + 1)
                       \o (IF v.a[i].t = "undefined" THEN <<"null">>
                           ELSE Ser(v.a[i], indent, d + 1))
                       \o (IF i < Len(v.a) THEN <<",">> ELSE <<>>)])
                \o Gap(indent, d) \o <<"]">>
      [] v.t = "obj" ->
           LET o == SelectEntries(v.o) IN
           IF o = <<>> THEN <<"{}">>
           ELSE <<"{">>
                \o Flatten([i \in 1..Len(o) |->
                       Gap(indent, d + 1)
                       \o <<"\"" \o o[i].k \o "\":">>
                       \o (IF indent = 0 THEN <<>> ELSE <<" ">>)
                       \o Ser(o[i].v, indent, d + 1)
                       \o (IF i < Len(o) THEN <<",">> ELSE <<>>)])
                \o Gap(indent, d) \o <<"}">>

JSONstringify(v, indent) == Ser(v, indent, 0)

RECURSIVE JSONroundtrip(_)
\* JSON.parse(JSON.stringify(v)): what a value is after it crossed HTTP.
\* Object members that are undefined are dropped, array elements that are
\* undefined become null.
JSONroundtrip(v) ==
    CASE v.t = "arr" ->
           JArr([i \in 1..Len(v.a) |->
                   IF v.a[i].t = "undefined" THEN JNull
                   ELSE JSONroundtrip(v.a[i])])
      [] v.t = "obj" ->
           LET o == SelectEntries(v.o) IN
           JObj([i \in 1..Len(o) |-> KV(o[i].k, JSONroundtrip(o[i].v))])
      [] OTHER -> v

\* obj.key of a JSON object (undefined when the object has no such member)
Get(obj, key) ==
    IF obj.t # "obj" THEN JUndef
    ELSE IF \E i \in 1..Len(obj.o) : obj.o[i].k = key
         THEN obj.o[CHOOSE i \in 1..Len(obj.o) : obj.o[i].k = key].v
         ELSE JUndef

\* JavaScript truthiness of a JSON value
Truthy(v) ==
    CASE v.t = "undefined" -> FALSE
      [] v.t = "null" -> FALSE
      [] v.t = "bool" -> v.b
      [] v.t = "num" -> v.n # 0
      [] v.t = "str" -> v.s # ""
      [] OTHER -> TRUE

(***************************************************************************)
(* Tool Catalog (tools.js)                                                 *)
(***************************************************************************)
tools ==
  <<
    [name |-> "GetActiveEditor",
     description |->
       "Get the active editor state. Returns {path: string|null, content: string, cursorPosition: {row, column} (0-indexed), grammar: string, modified: boolean}, or null if no editor is open.",
     inputSchema |->
       [type |-> "object",
        properties |->
          <<>>,
        required |-> <<>>]],
    [name |-> "InsertText",
     description |->
       "Insert text at cursor or replace selection. If text is selected, replaces it; otherwise inserts at cursor. Works with multi-cursor. Returns true on success, false if no editor.",
     inputSchema |->
       [type |-> "object",
        properties |->
          <<[name |-> "text",
             type |-> "string",
             description |-> "The text to insert (replaces selection if any)"]>>,
        required |-> <<"text">>]],
    [name |-> "OpenFile",
     description |->
       "Open a file in editor. All positions are 0-indexed. Returns true on success. Creates new file if path doesn't exist.",
     inputSchema |->
       [type |-> "object",
        properties |->
          <<[name |-> "path",
             type |-> "string",
             description |-> "File path (absolute or relative to project root)"],
            [name |-> "row",
             type |-> "number",
             description |-> "Row to navigate to (0-indexed, optional)"],
            [name |-> "column",
             type |-> "number",
             description |-> "Column to navigate to (0-indexed, optional)"]>>,
        required |-> <<"path">>]],
    [name |-> "GetProjectPaths",
     description |->
       "Get project root folders. Returns string[] of absolute paths. Empty array if no project open.",
     inputSchema |->
       [type |-> "object",
        properties |->
          <<>>,
        required |-> <<>>]],
    [name |-> "SaveFile",
     description |->
       "Save a file. Returns true on success, false if file not found or no editor. If path omitted, saves active editor.",
     inputSchema |->
       [type |-> "object",
        properties |->
          <<[name |-> "path",
             type |-> "string",
             description |-> "File path to save (optional, defaults to active editor)"]>>,
        required |-> <<>>]],
    [name |-> "SetSelections",
     description |->
       "Set multi-cursor selections. All positions are 0-indexed. Example: [{startRow:0, startColumn:0, endRow:0, endColumn:5}] selects first 5 chars of line 1. Returns false if no editor.",
     inputSchema |->
       [type |-> "object",
        properties |->
          <<[name |-> "ranges",
             type |-> "array",
             description |-> "Array of selection ranges",
             items |->
               [type |-> "object",
                properties |->
                  <<[name |-> "startRow",
                     type |-> "number",
                     description |-> "Start line (0-indexed)"],
                    [name |-> "startColumn",
                     type |-> "number",
                     description |-> "Start column (0-indexed)"],
                    [name |-> "endRow",
                     type |-> "number",
                     description |-> "End line (0-indexed)"],
                    [name |-> "endColumn",
                     type |-> "number",
                     description |-> "End column (0-indexed)"]>>,
                required |-> <<"startRow", "startColumn", "endRow", "endColumn">>]]>>,
        required |-> <<"ranges">>]],
    [name |-> "GetSelections",
     description |->
       "Get all selections/cursors. Returns array of {text: string, isEmpty: boolean, range: {start: {row, column}, end: {row, column}}} (0-indexed). First element is primary selection. Returns null if no editor.",
     inputSchema |->
       [type |-> "object",
        properties |->
          <<>>,
        required |-> <<>>]],
    [name |-> "CloseFile",
     description |->
       "Close an editor tab. Returns true on success, false if file not found. If path omitted, closes active editor. Unsaved changes are discarded unless save=true.",
     inputSchema |->
       [type |-> "object",
        properties |->
          <<[name |-> "path",
             type |-> "string",
             description |-> "File path to close (optional, defaults to active editor)"],
            [name |-> "save",
             type |-> "boolean",
             description |-> "Save before closing if modified (default: false)"]>>,
        required |-> <<>>]],
    [name |-> "FindText",
     description |->
       "Find all matches in active editor. Returns {matches: [{text, range: {start: {row, column}, end: {row, column}}}], count}. All positions 0-indexed. Uses JavaScript regex. Returns null if no editor.",
     inputSchema |->
       [type |-> "object",
        properties |->
          <<[name |-> "pattern",
             type |-> "string",
             description |-> "Search text or JavaScript regex pattern"],
            [name |-> "isRegex",
             type |-> "boolean",
             description |-> "Treat pattern as regex (default: false)"],
            [name |-> "caseSensitive",
             type |-> "boolean",
             description |-> "Case sensitive search (default: true)"]>>,
        required |-> <<"pattern">>]],
    [name |-> "AddProjectPath",
     description |->
       "Add a folder to project roots without removing existing paths. Returns true on success, false if path invalid.",
     inputSchema |->
       [type |-> "object",
        properties |->
          <<[name |-> "path",
             type |-> "string",
             description |-> "Absolute folder path to add"]>>,
        required |-> <<"path">>]]
  >>

\* The names of a listing, in its order.
NamesOf(listing) == [i \in 1..Len(listing) |-> listing[i].name]

\* A lookup that finds a tool for every string
HasToolAnyString(name) == name.t = "str"

\* tools.find((t) => t.name === name) finds a tool; name is a JSON value
\* and === holds for a string only.
HasTool(name) ==
    /\ name.t = "str"
    /\ \E i \in 1..Len(tools) : tools[i].name = name.s

(***************************************************************************)
(* MCP stdio server (server.js): the pure parts                            *)
(***************************************************************************)
BRIDGE_PORT == 3000
BRIDGE_HOST == "127.0.0.1"

\* `${v}`: the string a template literal makes of a JSON value
Str(v) ==
    CASE v.t = "str" -> v.s
      [] v.t = "undefined" -> "undefined"
      [] v.t = "null" -> "null"
      [] v.t = "bool" -> (IF v.b THEN "true" ELSE "false")
      [] v.t = "num" -> ToString(v.n)
      [] v.t = "arr" -> (IF v.a = <<>> THEN "" ELSE "<array>")
      [] OTHER -> "[object Object]"

\* What an async function has done when it gives up control: returned a
\* value, thrown a value, or suspended in an await.
NoValue == [t |-> "none"]
NoError == [code |-> JUndef, message |-> <<>>, name |-> "none"]
Return(v) == [k |-> "return", v |-> v, e |-> NoError]
Throw(e) == [k |-> "throw", v |-> NoValue, e |-> e]
Await(what) == [k |-> "await", v |-> [t |-> "none", on |-> what], e |-> NoError]

\* A thrown object literal {code, message}, and a thrown Error instance
\* (which has no code property).
ErrorObject(code, message) == [code |-> JNum(code), message |-> message, name |-> "Object"]
ErrorInstance(name, message) == [code |-> JUndef, message |-> message, name |-> name]

\* An HTTP response as fetch gives it, and a fetch that rejects.
\* json says whether the body parses as JSON; body is the parsed value.
HttpResponse(status, headers, json, body) ==
    [k |-> "response", status |-> status, headers |-> headers,
     json |-> json, body |-> body]
FetchFailed == [k |-> "failed", status |-> 0, headers |-> {}, json |-> FALSE,
                body |-> JUndef]

\* response.ok
ResponseOk(res) == res.status >= 200 /\ res.status <= 299

\* A callBridge that returns the data without testing response.ok and
\* result.success
callBridgeUnchecked(toolName, res) ==
    IF res.k = "failed"
    THEN Throw(ErrorInstance("TypeError", <<"fetch failed">>))
    ELSE IF ~res.json
    THEN Throw(ErrorInstance("SyntaxError", <<"Unexpected token in JSON">>))
    ELSE IF res.body.t \in {"null", "undefined"}
    THEN Throw(ErrorInstance("TypeError", <<"Cannot read properties of null">>))
    ELSE Return(Get(res.body, "data"))

\* callBridge resumed with the outcome of its fetch of POST /tools/<toolName>
callBridge(toolName, res) ==
    IF res.k = "failed"
    THEN Throw(ErrorInstance("TypeError", <<"fetch failed">>))
    ELSE IF ~res.json
    THEN Throw(ErrorInstance("SyntaxError", <<"Unexpected token in JSON">>))
    ELSE LET result == res.body IN
         IF result.t \in {"null", "undefined"}
         THEN Throw(ErrorInstance("TypeError",
                        <<"Cannot read properties of null">>))
         ELSE IF ~ResponseOk(res) \/ ~Truthy(Get(result, "success"))
         THEN Throw(ErrorInstance("Error",
                        IF Truthy(Get(result, "error"))
                        THEN <<Str(Get(result, "error"))>>
                        ELSE <<"Tool call failed: ", toolName>>))
         ELSE Return(Get(result, "data"))

\* A checkBridge that keeps reporting the bridge as down
checkBridgeDown(res) == FALSE

\* checkBridge resumed with the outcome of its fetch of GET /health
checkBridge(res) == IF res.k = "failed" THEN FALSE ELSE ResponseOk(res)

\* An initialize result that declares no capability
InitializeResultNoTools ==
    [protocolVersion |-> "2024-11-05",
     capabilities |-> JObj(<<>>),
     serverInfo |-> [name |-> "pulsar", version |-> "0.1.0"]]

InitializeResult ==
    [protocolVersion |-> "2024-11-05",
     capabilities |-> [tools |-> JObj(<<>>)],
     serverInfo |-> [name |-> "pulsar", version |-> "0.1.0"]]

\* A listing in the reverse of the catalog's order
ToolsListResultReversed ==
    [tools |-> [i \in 1..Len(tools) |-> tools[Len(tools) + 1 - i]]]

ToolsListResult == [tools |-> tools]

BridgeNotAvailable ==
    ErrorObject(-32603,
        <<"Pulsar bridge not available at http://", BRIDGE_HOST, ":",
          ToString(BRIDGE_PORT), ". ",
          "Make sure Pulsar is running with the claude-chat package activated.">>)

UnknownTool(name) == ErrorObject(-32601, <<"Unknown tool: ", Str(name)>>)

\* An unknown method reported as an internal error
MethodNotFoundAsInternal(method) ==
    ErrorObject(-32603, <<"Method not found: ", Str(method)>>)

MethodNotFound(method) ==
    ErrorObject(-32601, <<"Method not found: ", Str(method)>>)

\* const { name, arguments: args } = params throws for null and undefined
CanDestructure(params) == params.t \notin {"null", "undefined"}

\* handleRequest(req) up to its first await
handleRequest(req) ==
    LET method == Get(req, "method")
        params == Get(req, "params")
    IN  IF method = JStr("initialize") THEN Return(InitializeResult)
        ELSE IF method = JStr("tools/list") THEN Return(ToolsListResult)
        ELSE IF method = JStr("tools/call")
        THEN IF ~CanDestructure(params)
             THEN Throw(ErrorInstance("TypeError",
                      <<"Cannot destructure property 'name' of 'params'">>))
             ELSE Await("checkBridge")
        ELSE Throw(MethodNotFound(method))

\* The tool name and the arguments of a tools/call
CallName(req) == Get(Get(req, "params"), "name")
CallArgs(req) ==
    LET args == Get(Get(req, "params"), "arguments")
    IN  IF Truthy(args) THEN args ELSE JObj(<<>>)

\* A handleRequest that validates the tool name before it looks at the
\* outcome of the health check
handleRequestCheckedNameFirst(req, bridgeAvailable) ==
    IF ~HasTool(CallName(req)) THEN Throw(UnknownTool(CallName(req)))
    ELSE IF ~bridgeAvailable THEN Throw(BridgeNotAvailable)
    ELSE Await("callBridge")

\* handleRequest resumed after `await checkBridge()`
handleRequestChecked(req, bridgeAvailable) ==
    IF ~bridgeAvailable THEN Throw(BridgeNotAvailable)
    ELSE IF ~HasTool(CallName(req)) THEN Throw(UnknownTool(CallName(req)))
    ELSE Await("callBridge")

\* A handleRequest that serializes the data without indentation
handleRequestCalledCompact(req, called) ==
    IF called.k = "throw" THEN called
    ELSE Return([content |-> <<[type |-> "text",
                                text |-> JSONstringify(called.v, 0)]>>])

\* handleRequest resumed after `await callBridge(name, args || {})`
handleRequestCalled(req, called) ==
    IF called.k = "throw" THEN called
    ELSE Return([content |-> <<[type |-> "text",
                                text |-> JSONstringify(called.v, 2)]>>])

\* The two messages the line handler sends for a settled handleRequest,
\* and the one for a line that does not parse.
NoResult == [t |-> "absent"]
NoRpcError == [code |-> 0, message |-> <<>>]
\* A code that is taken from the error as it is
ErrCodeAsThrown(e) == IF Truthy(e.code) THEN e.code.n ELSE 0

\* e.code || -32603
ErrCode(e) == IF Truthy(e.code) THEN e.code.n ELSE -32603
ErrMessage(e) ==
    IF e.message # <<>> /\ e.message # <<"">> THEN e.message
    ELSE <<IF e.name = "Object" THEN "[object Object]" ELSE e.name>>
ResultMessage(id, result) ==
    [jsonrpc |-> "2.0", id |-> id, result |-> result, error |-> NoRpcError]
\* A catch that reports every exception as a parse error
ErrorMessageAsParseError(id, e) ==
    [jsonrpc |-> "2.0", id |-> id, result |-> NoResult,
     error |-> [code |-> -32700, message |-> ErrMessage(e)]]
ErrorMessage(id, e) ==
    [jsonrpc |-> "2.0", id |-> id, result |-> NoResult,
     error |-> [code |-> ErrCode(e), message |-> ErrMessage(e)]]
\* A line handler that reports a line that does not parse as an internal
\* error
ParseErrorAsInternal ==
    [jsonrpc |-> "2.0", id |-> JNull, result |-> NoResult,
     error |-> [code |-> -32603, message |-> <<"Parse error">>]]
ParseError ==
    [jsonrpc |-> "2.0", id |-> JNull, result |-> NoResult,
     error |-> [code |-> -32700, message |-> <<"Parse error">>]]
\* A line handler that answers every request with the id null
ReplyNullId(req, settled) ==
    IF settled.k = "return" THEN ResultMessage(JNull, settled.v)
    ELSE ErrorMessage(JNull, settled.e)

Reply(req, settled) ==
    IF settled.k = "return" THEN ResultMessage(Get(req, "id"), settled.v)
    ELSE ErrorMessage(Get(req, "id"), settled.e)

(***************************************************************************)
(* Host application (the atom global), as far as the tools reach it        *)
(***************************************************************************)
\* editor: there is an active text editor; path, text, modified, cursor
\* and ranges are that editor's; paths are the project roots; panes counts
\* the panes of the workspace.
HostOf(editor, paths) ==
    [editor |-> editor, path |-> IF editor THEN "/proj/a.js" ELSE "",
     text |-> "", modified |-> FALSE, cursor |-> <<0, 0>>, ranges |-> <<>>,
     paths |-> paths, panes |-> 1]

\* A host call either returns a value and leaves a host state, or throws.
HostReturn(v, h) == [threw |-> FALSE, ret |-> v, host |-> h, message |-> ""]
HostThrow(message, h) == [threw |-> TRUE, ret |-> JUndef, host |-> h, message |-> message]

\* n - 1 of a JSON number; 0 when initialLine / initialColumn is not given
Minus1(n) == IF n.t = "num" THEN n.n - 1 ELSE 0

\* atom.workspace.open(path, options): rejects when the host fails (fault)
WorkspaceOpen(h, path, options, fault) ==
    IF fault THEN HostThrow("Failed to open " \o Str(path), h)
    ELSE HostReturn(JBool(TRUE),
            [h EXCEPT !.editor = TRUE, !.path = Str(path),
                      !.text = IF h.editor /\ h.path = Str(path) THEN h.text ELSE "",
                      !.modified = IF h.editor /\ h.path = Str(path) THEN h.modified ELSE FALSE,
                      !.ranges = <<>>,
                      !.cursor = <<options.initialLine, options.initialColumn>>])

\* editor.save(): rejects when the host fails (fault)
EditorSave(h, fault) ==
    IF fault THEN HostThrow("Failed to save " \o h.path, h)
    ELSE HostReturn(JBool(TRUE), [h EXCEPT !.modified = FALSE])

\* options of openFile: initialLine = line - 1 when line is given, and
\* then initialColumn = column - 1 when column is given
OpenOptions(line, column) ==
    [initialLine |-> IF line.t # "undefined" THEN Minus1(line) ELSE 0,
     initialColumn |-> IF line.t # "undefined" /\ column.t # "undefined"
                       THEN Minus1(column) ELSE 0]

\* atom.workspace.getTextEditors().find((e) => e.getPath() === path)
EditorWithPath(h, path) == h.editor /\ path.t = "str" /\ h.path = path.s

Position(rc) == JObj(<<KV("row", JNum(rc[1])), KV("column", JNum(rc[2]))>>)

\* One range {startRow, startColumn, endRow, endColumn} as buffer range
BufferRange(r) ==
    <<<<Get(r, "startRow"), Get(r, "startColumn")>>,
      <<Get(r, "endRow"), Get(r, "endColumn")>>>>

\* The selections of the active editor: the ranges last set, or the one
\* empty selection at the cursor.
Selections(h) ==
    IF h.ranges = <<>>
    THEN <<[text |-> "", start |-> Position(h.cursor), end |-> Position(h.cursor)]>>
    ELSE [i \in 1..Len(h.ranges) |->
            LET b == BufferRange(h.ranges[i]) IN
            [text |-> IF b[1] = b[2] THEN "" ELSE "selected",
             start |-> JObj(<<KV("row", b[1][1]), KV("column", b[1][2])>>),
             end |-> JObj(<<KV("row", b[2][1]), KV("column", b[2][2])>>)]]

RangeOf(sel) == JObj(<<KV("start", sel.start), KV("end", sel.end)>>)

(***************************************************************************)
(* bridge.js, variant with direct atom access: the host functions          *)
(***************************************************************************)
getActiveEditor(h) ==
    IF ~h.editor THEN JNull
    ELSE JObj(<<KV("path", IF h.path = "" THEN JNull ELSE JStr(h.path)),
                KV("content", JStr(h.text)),
                KV("cursorPosition", Position(h.cursor)),
                KV("grammar", JStr("Plain Text")),
                KV("modified", JBool(h.modified))>>)

getSelection(h) ==
    IF ~h.editor THEN JNull
    ELSE LET Last(sels) == sels[Len(sels)]
             Selected(selection) ==
                 IF selection.text = "" THEN JNull
                 ELSE JObj(<<KV("text", JStr(selection.text)),
                             KV("range", RangeOf(selection))>>)
         IN  Selected(Last(Selections(h)))

\* An insertText that reports true whether or not there is an editor
insertTextUnguarded(h, text) == HostReturn(JBool(TRUE), h)

insertText(h, text) ==
    IF ~h.editor THEN HostReturn(JBool(FALSE), h)
    ELSE HostReturn(JBool(TRUE),
            [h EXCEPT !.text = h.text \o Str(text), !.modified = TRUE])

replaceSelection(h, text) ==
    IF ~h.editor THEN HostReturn(JBool(FALSE), h)
    ELSE HostReturn(JBool(TRUE),
            [h EXCEPT !.text = h.text \o Str(text), !.modified = TRUE])

openFile(h, filePath, line, column, fault) ==
    LET opened == WorkspaceOpen(h, filePath, OpenOptions(line, column), fault)
    IN  IF opened.threw THEN HostReturn(JBool(FALSE), h)
        ELSE HostReturn(JBool(TRUE), opened.host)

goToPosition(h, line, column) ==
    IF ~h.editor THEN HostReturn(JBool(FALSE), h)
    ELSE HostReturn(JBool(TRUE),
            [h EXCEPT !.cursor = <<Minus1(line),
                                   IF column.t = "undefined" THEN 0
                                   ELSE Minus1(column)>>])

getOpenEditors(h) ==
    IF ~h.editor THEN JArr(<<>>)
    ELSE JArr(<<JObj(<<KV("path", IF h.path = "" THEN JNull ELSE JStr(h.path)),
                       KV("modified", JBool(h.modified)),
                       KV("active", JBool(TRUE))>>)>>)

getProjectPaths(h) == JArr([i \in 1..Len(h.paths) |-> JStr(h.paths[i])])

saveFile(h, filePath, fault) ==
    IF Truthy(filePath) /\ ~EditorWithPath(h, filePath)
    THEN HostReturn(JBool(FALSE), h)
    ELSE IF ~h.editor THEN HostReturn(JBool(FALSE), h)
    ELSE LET saved == EditorSave(h, fault)
         IN  IF saved.threw THEN HostReturn(JBool(FALSE), h)
             ELSE HostReturn(JBool(TRUE), saved.host)

\* ranges.map((r) => [[r.startRow, ...], ...]) throws when ranges is no
\* array or an element of it is null
CanMapRanges(ranges) ==
    /\ ranges.t = "arr"
    /\ \A i \in 1..Len(ranges.a) : ranges.a[i].t \notin {"null", "undefined"}

setSelections(h, ranges) ==
    IF ~h.editor THEN HostReturn(JBool(FALSE), h)
    ELSE IF ~CanMapRanges(ranges) THEN HostReturn(JBool(FALSE), h)
    ELSE HostReturn(JBool(TRUE), [h EXCEPT !.ranges = ranges.a])

getAllSelections(h) ==
    IF ~h.editor THEN JNull
    ELSE LET Each(sels) ==
                 JArr([i \in 1..Len(sels) |->
                         JObj(<<KV("text", JStr(sels[i].text)),
                                KV("isEmpty", JBool(sels[i].text = "")),
                                KV("range", RangeOf(sels[i]))>>)])
         IN  Each(Selections(h))

revealInTreeView(h, filePath, fault) ==
    IF ~Truthy(filePath) THEN HostReturn(JBool(TRUE), h)
    ELSE LET opened == WorkspaceOpen(h, filePath, OpenOptions(JUndef, JUndef), fault)
         IN  IF opened.threw THEN HostReturn(JBool(FALSE), h)
             ELSE HostReturn(JBool(TRUE), opened.host)

\* pane.destroyItem(editor, true)
DestroyEditor(h) ==
    [h EXCEPT !.editor = FALSE, !.path = "", !.text = "", !.modified = FALSE,
              !.cursor = <<0, 0>>, !.ranges = <<>>]

closeFile(h, filePath, save, fault) ==
    IF Truthy(filePath) /\ ~EditorWithPath(h, filePath)
    THEN HostReturn(JBool(FALSE), h)
    ELSE IF ~h.editor THEN HostReturn(JBool(FALSE), h)
    ELSE IF Truthy(save) /\ h.modified
    THEN LET saved == EditorSave(h, fault)
         IN  IF saved.threw THEN HostReturn(JBool(FALSE), h)
             ELSE HostReturn(JBool(TRUE), DestroyEditor(saved.host))
    ELSE HostReturn(JBool(TRUE), DestroyEditor(h))

Directions == {"left", "right", "up", "down"}

splitPane(h, direction, filePath, fault) ==
    IF ~(direction.t = "str" /\ direction.s \in Directions)
    THEN HostReturn(JBool(FALSE), h)
    ELSE LET split == [h EXCEPT !.panes = h.panes + 1] IN
         IF ~Truthy(filePath) THEN HostReturn(JBool(TRUE), split)
         ELSE LET opened == WorkspaceOpen(split, filePath,
                                 OpenOptions(JUndef, JUndef), fault)
              IN  IF opened.threw THEN HostReturn(JBool(FALSE), split)
                  ELSE HostReturn(JBool(TRUE), opened.host)

closePane(h, saveAll, fault) ==
    IF Truthy(saveAll) /\ h.editor /\ h.modified
    THEN LET saved == EditorSave(h, fault)
         IN  IF saved.threw THEN HostReturn(JBool(FALSE), h)
             ELSE HostReturn(JBool(TRUE), DestroyEditor(saved.host))
    ELSE HostReturn(JBool(TRUE), DestroyEditor(h))

DockInfo == JObj(<<KV("visible", JBool(FALSE)), KV("items", JNum(0))>>)

getPanelState(h) ==
    JObj(<<KV("left", DockInfo), KV("right", DockInfo), KV("bottom", DockInfo),
           KV("panes", JObj(<<KV("count", JNum(h.panes)),
                              KV("activeIndex", JNum(0))>>))>>)

(***************************************************************************)
(* bridge.js, variant with direct atom access: executeTool                 *)
(***************************************************************************)
\* ExecutionResult envelopes
Success(data) == JObj(<<KV("success", JBool(TRUE)), KV("data", data)>>)
\* A failure envelope that reports success
FailureAsSuccess(error) ==
    JObj(<<KV("success", JBool(TRUE)), KV("error", JStr(error))>>)
Failure(error) == JObj(<<KV("success", JBool(FALSE)), KV("error", JStr(error))>>)
\* { success: result, data: { <verb>: result } }
Outcome(result, data) == JObj(<<KV("success", result), KV("data", data)>>)

\* What executing a tool leaves: the envelope and the host state.
Executed(result, h) == [result |-> result, host |-> h]
Verb(verb, r) == Executed(Outcome(r.ret, JObj(<<KV(verb, r.ret)>>)), r.host)

\* The tools whose case reads a property of args (which throws for null)
ReadsArgs ==
    {"InsertText", "ReplaceSelection", "OpenFile", "GoToPosition", "SaveFile",
     "SetSelections", "RevealInTreeView", "CloseFile", "SplitPane", "ClosePane"}

NullArgsMessage == "Cannot read properties of null"

\* A diagnostic that does not name the field
RequiredGeneric(field) == Failure("Invalid arguments")

\* return { success: false, error: "<field> is required" }
Required(field) == Failure(field \o " is required")

\* A catch block that reports no more than that something failed
CaughtGeneric(r) == Failure("Internal error")

\* catch (error) { return { success: false, error: <message of error> } }
Caught(r) == Failure(r.message)

\* A default case that does not name the tool
UnknownToolResultBare(toolName) == Failure("Unknown tool")

\* default: return { success: false, error: `Unknown tool: ${toolName}` }
UnknownToolResult(toolName) == Failure("Unknown tool: " \o toolName)

executeTool(toolName, args, h, fault) ==
    IF toolName \in ReadsArgs /\ args.t = "null"
    THEN Executed(Caught(HostThrow(NullArgsMessage, h)), h)
    ELSE
    CASE toolName = "GetActiveEditor" -> Executed(Success(getActiveEditor(h)), h)
      [] toolName = "GetSelection" -> Executed(Success(getSelection(h)), h)
      [] toolName = "InsertText" ->
           IF Get(args, "text").t # "str"
           THEN Executed(Required("text"), h)
           ELSE Verb("inserted", insertText(h, Get(args, "text")))
      [] toolName = "ReplaceSelection" ->
           IF Get(args, "text").t # "str"
           THEN Executed(Required("text"), h)
           ELSE Verb("replaced", replaceSelection(h, Get(args, "text")))
      [] toolName = "OpenFile" ->
           IF Get(args, "path").t # "str"
           THEN Executed(Required("path"), h)
           ELSE Verb("opened", openFile(h, Get(args, "path"), Get(args, "line"),
                                        Get(args, "column"), fault))
      [] toolName = "GoToPosition" ->
           IF Get(args, "line").t # "num"
           THEN Executed(Required("line"), h)
           ELSE Verb("navigated", goToPosition(h, Get(args, "line"),
                                               Get(args, "column")))
      [] toolName = "GetOpenEditors" -> Executed(Success(getOpenEditors(h)), h)
      [] toolName = "GetProjectPaths" -> Executed(Success(getProjectPaths(h)), h)
      [] toolName = "SaveFile" ->
           Verb("saved", saveFile(h, Get(args, "path"), fault))
      [] toolName = "SetSelections" ->
           LET ranges == Get(args, "ranges") IN
           IF ranges.t # "arr" \/ Len(ranges.a) = 0
           THEN Executed(Failure("ranges array is required"), h)
           ELSE LET r == setSelections(h, ranges) IN
                Executed(Outcome(r.ret,
                            JObj(<<KV("selectionsSet", r.ret),
                                   KV("count", JNum(Len(ranges.a)))>>)),
                         r.host)
      [] toolName = "GetAllSelections" -> Executed(Success(getAllSelections(h)), h)
      [] toolName = "RevealInTreeView" ->
           IF Get(args, "path").t # "str"
           THEN Executed(Required("path"), h)
           ELSE Verb("revealed", revealInTreeView(h, Get(args, "path"), fault))
      [] toolName = "CloseFile" ->
           Verb("closed", closeFile(h, Get(args, "path"), Get(args, "save"), fault))
      [] toolName = "SplitPane" ->
           LET direction == Get(args, "direction") IN
           IF ~(direction.t = "str" /\ direction.s \in Directions)
           THEN Executed(Failure("direction must be one of: left, right, up, down"), h)
           ELSE LET r == splitPane(h, direction, Get(args, "path"), fault) IN
                Executed(Outcome(r.ret,
                            JObj(<<KV("split", r.ret),
                                   KV("direction", direction)>>)),
                         r.host)
      [] toolName = "ClosePane" ->
           Verb("closed", closePane(h, Get(args, "saveAll"), fault))
      [] toolName = "GetPanelState" -> Executed(Success(getPanelState(h)), h)
      [] OTHER -> Executed(UnknownToolResult(toolName), h)

(***************************************************************************)
(* bridge.js, variant with the tool registry: toolImpls and toolRegistry   *)
(***************************************************************************)
\* The impls whose parameter destructures args (which throws for null)
DestructuresArgs ==
    {"insertText", "replaceSelection", "openFile", "goToPosition", "saveFile",
     "setSelections", "revealInTreeView", "closeFile", "splitPane", "closePane"}

toolImpls(impl, args, h, fault) ==
    IF impl \in DestructuresArgs /\ args.t = "null"
    THEN HostThrow(NullArgsMessage, h)
    ELSE
    CASE impl = "getActiveEditor" -> HostReturn(getActiveEditor(h), h)
      [] impl = "getSelection" -> HostReturn(getSelection(h), h)
      [] impl = "insertText" -> insertText(h, Get(args, "text"))
      [] impl = "replaceSelection" -> replaceSelection(h, Get(args, "text"))
      [] impl = "openFile" ->
           LET opened == WorkspaceOpen(h, Get(args, "path"),
                             OpenOptions(Get(args, "line"), Get(args, "column")),
                             fault)
           IN  IF opened.threw THEN opened ELSE HostReturn(JBool(TRUE), opened.host)
      [] impl = "goToPosition" ->
           goToPosition(h, Get(args, "line"), Get(args, "column"))
      [] impl = "getOpenEditors" -> HostReturn(getOpenEditors(h), h)
      [] impl = "getProjectPaths" -> HostReturn(getProjectPaths(h), h)
      [] impl = "saveFile" ->
           IF Truthy(Get(args, "path")) /\ ~EditorWithPath(h, Get(args, "path"))
           THEN HostReturn(JBool(FALSE), h)
           ELSE IF ~h.editor THEN HostReturn(JBool(FALSE), h)
           ELSE EditorSave(h, fault)
      [] impl = "setSelections" ->
           IF ~h.editor THEN HostReturn(JBool(FALSE), h)
           ELSE IF ~CanMapRanges(Get(args, "ranges"))
           THEN HostThrow("Cannot read properties of null", h)
           ELSE HostReturn(JBool(TRUE), [h EXCEPT !.ranges = Get(args, "ranges").a])
      [] impl = "getAllSelections" -> HostReturn(getAllSelections(h), h)
      [] impl = "revealInTreeView" ->
           IF ~Truthy(Get(args, "path")) THEN HostReturn(JBool(TRUE), h)
           ELSE LET opened == WorkspaceOpen(h, Get(args, "path"),
                                  OpenOptions(JUndef, JUndef), fault)
                IN  IF opened.threw THEN opened
                    ELSE HostReturn(JBool(TRUE), opened.host)
      [] impl = "closeFile" ->
           IF Truthy(Get(args, "path")) /\ ~EditorWithPath(h, Get(args, "path"))
           THEN HostReturn(JBool(FALSE), h)
           ELSE IF ~h.editor THEN HostReturn(JBool(FALSE), h)
           ELSE IF Truthy(Get(args, "save")) /\ h.modified
           THEN LET saved == EditorSave(h, fault)
                IN  IF saved.threw THEN saved
                    ELSE HostReturn(JBool(TRUE), DestroyEditor(saved.host))
           ELSE HostReturn(JBool(TRUE), DestroyEditor(h))
      [] impl = "splitPane" ->
           LET direction == Get(args, "direction") IN
           IF ~(direction.t = "str" /\ direction.s \in Directions)
           THEN HostReturn(JBool(FALSE), h)
           ELSE LET split == [h EXCEPT !.panes = h.panes + 1] IN
                IF ~Truthy(Get(args, "path")) THEN HostReturn(JBool(TRUE), split)
                ELSE LET opened == WorkspaceOpen(split, Get(args, "path"),
                                       OpenOptions(JUndef, JUndef), fault)
                     IN  IF opened.threw THEN HostThrow(opened.message, split)
                         ELSE HostReturn(JBool(TRUE), opened.host)
      [] impl = "closePane" ->
           IF Truthy(Get(args, "saveAll")) /\ h.editor /\ h.modified
           THEN LET saved == EditorSave(h, fault)
                IN  IF saved.threw THEN saved
                    ELSE HostReturn(JBool(TRUE), DestroyEditor(saved.host))
           ELSE HostReturn(JBool(TRUE), DestroyEditor(h))
      [] impl = "getPanelState" -> HostReturn(getPanelState(h), h)

\* One entry of the registry: the impl, the validators by field, and the
\* format: "data" for (data) => data, else the verb of (result) => ({verb:
\* result}); extra names the member format adds from args.
Tool(impl, validate, format, extra) ==
    [impl |-> impl, validate |-> validate, format |-> format, extra |-> extra]
Check(field, kind) == [field |-> field, kind |-> kind]

toolRegistry ==
    [GetActiveEditor |-> Tool("getActiveEditor", <<>>, "data", ""),
     GetSelection |-> Tool("getSelection", <<>>, "data", ""),
     InsertText |-> Tool("insertText", <<Check("text", "string")>>, "inserted", ""),
     ReplaceSelection |->
         Tool("replaceSelection", <<Check("text", "string")>>, "replaced", ""),
     OpenFile |-> Tool("openFile", <<Check("path", "string")>>, "opened", ""),
     GoToPosition |->
         Tool("goToPosition", <<Check("line", "number")>>, "navigated", ""),
     GetOpenEditors |-> Tool("getOpenEditors", <<>>, "data", ""),
     GetProjectPaths |-> Tool("getProjectPaths", <<>>, "data", ""),
     SaveFile |-> Tool("saveFile", <<>>, "saved", ""),
     SetSelections |->
         Tool("setSelections", <<Check("ranges", "array")>>, "selectionsSet", "count"),
     GetAllSelections |-> Tool("getAllSelections", <<>>, "data", ""),
     RevealInTreeView |->
         Tool("revealInTreeView", <<Check("path", "string")>>, "revealed", ""),
     CloseFile |-> Tool("closeFile", <<>>, "closed", ""),
     SplitPane |->
         Tool("splitPane", <<Check("direction", "enum")>>, "split", "direction"),
     ClosePane |-> Tool("closePane", <<>>, "closed", ""),
     GetPanelState |-> Tool("getPanelState", <<>>, "data", "")]

\* The format function of a registry entry, applied to (result, args)
Format(tool, result, args) ==
    IF tool.format = "data" THEN result
    ELSE JObj(<<KV(tool.format, result)>>
              \o (CASE tool.extra = "count" ->
                         <<KV("count", JNum(Len(Get(args, "ranges").a)))>>
                    [] tool.extra = "direction" ->
                         <<KV("direction", Get(args, "direction"))>>
                    [] OTHER -> <<>>))

(***************************************************************************)
(* tool-registry.js: validators and executeFromRegistry                    *)
(***************************************************************************)
\* A validator applied to (value, fieldName): "" when the value passes,
\* else the diagnostic.
validators(kind, value, fieldName) ==
    CASE kind = "string" ->
           IF value.t = "str" THEN "" ELSE fieldName \o " is required"
      [] kind = "number" ->
           IF value.t = "num" THEN "" ELSE fieldName \o " is required"
      [] kind = "array" ->
           IF value.t = "arr" THEN "" ELSE fieldName \o " is required"
      [] kind = "enum" ->
           IF value.t = "str" /\ value.s \in Directions THEN ""
           ELSE fieldName \o " must be one of: left, right, up, down"

\* The diagnostics of the validators of a tool that fail, in their order
Diagnostics(tool, args) ==
    SelectSeq([i \in 1..Len(tool.validate) |->
                  validators(tool.validate[i].kind,
                             Get(args, tool.validate[i].field),
                             tool.validate[i].field)],
              LAMBDA d : d # "")

executeFromRegistry(registry, toolName, args, h, fault) ==
    IF toolName \notin DOMAIN registry
    THEN Executed(Failure("Unknown tool: " \o toolName), h)
    ELSE LET tool == registry[toolName]
             failed == Diagnostics(tool, args)
         IN  IF failed # <<>> THEN Executed(Failure(failed[1]), h)
             ELSE LET Settled(r) ==
                          IF r.threw THEN Executed(Caught(r), r.host)
                          ELSE Executed(Success(Format(tool, r.ret, args)), r.host)
                  IN  Settled(toolImpls(tool.impl, args, h, fault))

\* executeTool of the registry variant
executeToolRegistry(toolName, args, h, fault) ==
    executeFromRegistry(toolRegistry, toolName, args, h, fault)

(***************************************************************************)
(* bridge.js: the HTTP server (the same in both variants)                  *)
(***************************************************************************)
DEFAULT_PORT == 3000
DEFAULT_HOST == "127.0.0.1"

Upper ==
    {"A", "B", "C", "D", "E", "F", "G", "H", "I", "J", "K", "L", "M",
     "N", "O", "P", "Q", "R", "S", "T", "U", "V", "W", "X", "Y", "Z"}
Lower ==
    {"a", "b", "c", "d", "e", "f", "g", "h", "i", "j", "k", "l", "m",
     "n", "o", "p", "q", "r", "s", "t", "u", "v", "w", "x", "y", "z"}

\* The path segments that occur after /tools/, spelled out in characters
Spellings ==
    {
     <<"G", "e", "t", "A", "c", "t", "i", "v", "e", "E", "d", "i", "t", "o", "r">>,
     <<"I", "n", "s", "e", "r", "t", "T", "e", "x", "t">>,
     <<"O", "p", "e", "n", "F", "i", "l", "e">>,
     <<"G", "e", "t", "P", "r", "o", "j", "e", "c", "t", "P", "a", "t", "h", "s">>,
     <<"S", "a", "v", "e", "F", "i", "l", "e">>,
     <<"S", "e", "t", "S", "e", "l", "e", "c", "t", "i", "o", "n", "s">>,
     <<"G", "e", "t", "S", "e", "l", "e", "c", "t", "i", "o", "n", "s">>,
     <<"C", "l", "o", "s", "e", "F", "i", "l", "e">>,
     <<"F", "i", "n", "d", "T", "e", "x", "t">>,
     <<"A", "d", "d", "P", "r", "o", "j", "e", "c", "t", "P", "a", "t", "h">>,
     <<"G", "e", "t", "S", "e", "l", "e", "c", "t", "i", "o", "n">>,
     <<"R", "e", "p", "l", "a", "c", "e", "S", "e", "l", "e", "c", "t", "i", "o", "n">>,
     <<"G", "o", "T", "o", "P", "o", "s", "i", "t", "i", "o", "n">>,
     <<"G", "e", "t", "O", "p", "e", "n", "E", "d", "i", "t", "o", "r", "s">>,
     <<"G", "e", "t", "A", "l", "l", "S", "e", "l", "e", "c", "t", "i", "o", "n", "s">>,
     <<"R", "e", "v", "e", "a", "l", "I", "n", "T", "r", "e", "e", "V", "i", "e", "w">>,
     <<"S", "p", "l", "i", "t", "P", "a", "n", "e">>,
     <<"C", "l", "o", "s", "e", "P", "a", "n", "e">>,
     <<"G", "e", "t", "P", "a", "n", "e", "l", "S", "t", "a", "t", "e">>,
     <<"B", "o", "g", "u", "s">>,
     <<"i", "n", "s", "e", "r", "t", "T", "e", "x", "t">>,
     <<"T", "o", "o", "l", "2">>,
     <<"h", "e", "a", "l", "t", "h">>
    }

RECURSIVE Concat(_)
Concat(cs) == IF cs = <<>> THEN "" ELSE Head(cs) \o Concat(Tail(cs))

\* The characters of a path segment
Spelling ==
    [s \in {Concat(c) : c \in Spellings} |->
        CHOOSE c \in Spellings : Concat(c) = s]

\* /^[A-Z][a-z]*$/ applied to a path segment
IsToolNameOneWord(s) ==
    /\ s \in DOMAIN Spelling
    /\ LET c == Spelling[s] IN
       /\ Len(c) >= 1
       /\ c[1] \in Upper
       /\ \A i \in 2..Len(c) : c[i] \in Lower

\* /^[A-Z][a-zA-Z]*$/ applied to a path segment
IsToolName(s) ==
    /\ s \in DOMAIN Spelling
    /\ LET c == Spelling[s] IN
       /\ Len(c) >= 1
       /\ c[1] \in Upper
       /\ \A i \in 2..Len(c) : c[i] \in Upper \cup Lower

\* pathname.match(/^\/tools\/([A-Z][a-zA-Z]*)$/); a pathname is the
\* sequence of its segments
toolMatch(pathname) ==
    /\ Len(pathname) = 2
    /\ pathname[1] = "tools"
    /\ IsToolName(pathname[2])

\* An HTTP request: method, request target (req.url, the sequence of the
\* texts that follow each of its slashes; "/" is the empty sequence), and
\* the body, which is empty, a JSON text (given by its value) or a text
\* that is not JSON.
HttpRequest(method, url, body) ==
    [method |-> method, url |-> url, body |-> body]

\* new URL(req.url ?? "/", `http://${host}:${port}`).pathname.  A target
\* that begins with two slashes names its own host: the slashes that follow
\* are skipped, the next segment is the host and the rest is the path; with
\* no host there, the constructor throws TypeError (Invalid URL).
RECURSIVE SkipSlashes(_)
SkipSlashes(url) ==
    IF url # <<>> /\ Head(url) = "" THEN SkipSlashes(Tail(url)) ELSE url
pathnameOf(url) ==
    IF Len(url) >= 2 /\ url[1] = ""
    THEN IF SkipSlashes(url) = <<>>
         THEN Throw(ErrorInstance("TypeError", <<"Invalid URL">>))
         ELSE Return(Tail(SkipSlashes(url)))
    ELSE Return(url)
EmptyBody == [k |-> "empty", v |-> JUndef]
JsonBody(v) == [k |-> "json", v |-> JSONroundtrip(v)]
MalformedBody == [k |-> "malformed", v |-> JUndef]

\* parseBody(req): resolves with the parsed body, {} for an empty one,
\* and rejects with Error("Invalid JSON body") for a malformed one
parseBody(body) ==
    CASE body.k = "empty" -> Return(JObj(<<>>))
      [] body.k = "json" -> Return(body.v)
      [] OTHER -> Throw(ErrorInstance("Error", <<"Invalid JSON body">>))

AllowOrigin == <<"Access-Control-Allow-Origin", "*">>

\* A sendJson that sets the content type only
sendJsonNoCors(data, statusCode) ==
    HttpResponse(statusCode, {<<"Content-Type", "application/json">>},
                 TRUE, JSONroundtrip(data))

sendJson(data, statusCode) ==
    HttpResponse(statusCode,
                 {<<"Content-Type", "application/json">>, AllowOrigin},
                 TRUE, JSONroundtrip(data))

\* A value that is carried as it is (the Tool Catalog in a listing)
Native(v) == [t |-> "native", value |-> v]

\* The call of executeTool a request led to: the variant of bridge.js that
\* made it, the name, the arguments, whether the host failed during it, and
\* the ExecutionResult it resolved with; NoCall when there was none.
NoCall ==
    [variant |-> "", toolName |-> "", args |-> JUndef, fault |-> FALSE,
     result |-> JUndef]
Call(variant, toolName, args, fault, result) ==
    [variant |-> variant, toolName |-> toolName, args |-> args,
     fault |-> fault, result |-> result]

\* The listener's promise rejected before anything was written to res
NoAnswer == [k |-> "unanswered", status |-> 0, headers |-> {}, json |-> FALSE,
             body |-> JUndef]

\* What handling a request leaves: the response, the host state, and the
\* call of executeTool made for it.
Served(res, h) == [res |-> res, host |-> h, ran |-> NoCall]
Ran(served, call) == [served EXCEPT !.ran = call]

\* executeTool of the variant that serves
Execute(variant, toolName, args, h, fault) ==
    IF variant = "registry" THEN executeToolRegistry(toolName, args, h, fault)
    ELSE executeTool(toolName, args, h, fault)

\* A health body that reports the bridge as starting
HealthBodyStarting ==
    JObj(<<KV("status", JStr("starting")), KV("timestamp", JNum(0))>>)

\* { status: "ok", timestamp: Date.now() }
HealthBody == JObj(<<KV("status", JStr("ok")), KV("timestamp", JNum(0))>>)

\* A status that is 200 whatever the result
statusForAlwaysOk(result) == 200

\* if (result.success) sendJson(res, result) else sendJson(res, result, 400)
statusFor(result) == IF Truthy(Get(result, "success")) THEN 200 ELSE 400

\* The request listener of http.createServer in startBridge, with the
\* parsed pathname
route(variant, req, pathname, h, fault) ==
    IF req.method = "GET" /\ pathname = <<"health">>
    THEN Served(sendJson(HealthBody, 200), h)
    ELSE IF req.method = "GET" /\ pathname = <<"tools">>
    THEN Served(sendJson(JObj(<<KV("tools", Native(tools))>>), 200), h)
    ELSE IF req.method = "POST" /\ toolMatch(pathname)
    THEN LET toolName == pathname[2]
             args == parseBody(req.body)
         IN  IF args.k = "throw"
             THEN Served(sendJson(JObj(<<KV("error", JStr(args.e.message[1]))>>),
                                  500), h)
             ELSE LET Send(x) ==
                          Ran(Served(sendJson(x.result, statusFor(x.result)),
                                     x.host),
                              Call(variant, toolName, args.v, fault, x.result))
                  IN  Send(Execute(variant, toolName, args.v, h, fault))
    ELSE Served(sendJson(JObj(<<KV("error", JStr("Not found"))>>), 404), h)

\* The request listener of http.createServer in startBridge.  The URL is
\* parsed outside the try: when that throws, the listener's promise
\* rejects and nothing is written to res.
requestListener(variant, req, h, fault) ==
    IF req.method = "OPTIONS"
    THEN Served(HttpResponse(204,
                    {AllowOrigin,
                     <<"Access-Control-Allow-Methods", "GET, POST, OPTIONS">>,
                     <<"Access-Control-Allow-Headers", "Content-Type">>},
                    FALSE, JUndef), h)
    ELSE LET Routed(url) ==
                 IF url.k = "throw" THEN Served(NoAnswer, h)
                 ELSE route(variant, req, url.v, h, fault)
         IN  Routed(pathnameOf(req.url))

(***************************************************************************)
(* State                                                                   *)
(***************************************************************************)
VARIABLES
    running,    \* the stdio server process is alive
    lines,      \* number of lines read from stdin so far
    last,       \* what the last line read was
    handlers,   \* one entry per call of handleRequest, in order of arrival
    stdout,     \* the messages written to stdout, in order
    listener,   \* who listens on BRIDGE_HOST:BRIDGE_PORT
    host,       \* the state of the host application
    https,      \* number of requests other HTTP clients have sent
    exchange,   \* the last request of another HTTP client, its response, and
                \* the call of executeTool made for it
    bridges,    \* the bridge object of each window of the host application
    ports,      \* who holds each port of the loopback interface
    relative    \* the last call of getRelativePath: arguments and result

vars == <<running, lines, last, handlers, stdout, listener, host, https, exchange,
          bridges, ports, relative>>

\* The variants of bridge.js: with the tool registry, with direct atom access
Variants == {"registry", "direct"}

(***************************************************************************)
(* Inputs                                                                  *)
(***************************************************************************)
\* Arguments an agent passes to a tool, besides none
ArgsFor(name) ==
    CASE name = JStr("InsertText") ->
           {JObj(<<>>), JObj(<<KV("text", JStr("hi"))>>)}
      [] name = JStr("OpenFile") -> {JObj(<<KV("path", JStr("/proj/b.js"))>>)}
      [] name = JStr("SetSelections") -> {JObj(<<KV("ranges", JArr(<<>>))>>)}
      [] OTHER -> {}

\* Tool names an agent calls: the catalog's, one the bridge knows and the
\* catalog does not, and none
CallNames ==
    {JStr(tools[i].name) : i \in 1..Len(tools)} \cup {JStr("GetSelection"), JUndef}

CallParams ==
    {JUndef}
    \cup UNION {{JSONroundtrip(JObj(<<KV("name", n), KV("arguments", a)>>)) :
                    a \in {JUndef} \cup ArgsFor(n)} : n \in CallNames}

Request(id, method, params) ==
    JSONroundtrip(JObj(<<KV("jsonrpc", JStr("2.0")), KV("id", id),
                         KV("method", method), KV("params", params)>>))

\* The requests the agent may write as line n: notifications, and requests
\* that carry the id n; one request carries the id null.
Requests(n) ==
    {Request(id, m, JUndef) :
        id \in {JUndef, JNum(n)},
        m \in {JUndef, JStr("initialize"), JStr("tools/list"), JStr("ping")}}
    \cup {Request(id, JStr("tools/call"), q) :
            id \in {JUndef, JNum(n)}, q \in CallParams}
    \cup {Request(JNull, JStr("ping"), JUndef)}

\* A line of stdin: a text that is not JSON, or the JSON value it parses to
Line(ok, v) == [ok |-> ok, v |-> v]
LinesAt(n) ==
    {Line(FALSE, JUndef)}
    \cup {Line(TRUE, v) :
            v \in {JNull, JNum(5), JStr("x"), JArr(<<>>)} \cup Requests(n)}

\* The lines the agent may write, by line number
Lines == [n \in 1..(MaxLines + 1) |-> LinesAt(n)]

\* The calls the agent may write any number of times; it writes at most
\* one call that is none of these
CoreCalls ==
    {JUndef}
    \cup {JSONroundtrip(JObj(<<KV("name", JStr("GetProjectPaths"))>>)),
          JSONroundtrip(JObj(<<KV("name", JStr("FindText"))>>)),
          JSONroundtrip(JObj(<<KV("name", JStr("InsertText")),
                               KV("arguments", JObj(<<KV("text", JStr("hi"))>>))>>))}
IsCore(req) ==
    Get(req, "method") = JStr("tools/call") => Get(req, "params") \in CoreCalls
CoreLines ==
    [n \in 1..(MaxLines + 1) |-> {l \in LinesAt(n) : l.ok => IsCore(l.v)}]

\* Requests of other HTTP clients.  The targets besides /tools/<name>:
\* "/", "/health", "/tools", "/health/", "//" and "//health".
ClientTargets ==
    {<<>>, <<"health">>, <<"tools">>, <<"health", "">>, <<"", "">>,
     <<"", "health">>}
OneRange ==
    JObj(<<KV("ranges",
              JArr(<<JObj(<<KV("startRow", JNum(0)), KV("startColumn", JNum(0)),
                            KV("endRow", JNum(0)), KV("endColumn", JNum(1))>>)>>))>>)
\* Arguments of OpenFile as its inputSchema names them: path, row, column
AtRowColumn ==
    JObj(<<KV("path", JStr("/proj/b.js")), KV("row", JNum(2)),
           KV("column", JNum(3))>>)
ClientBodies ==
    {EmptyBody, MalformedBody, JsonBody(JObj(<<KV("text", JStr("hi"))>>)),
     JsonBody(JObj(<<KV("path", JStr("/proj/b.js"))>>)), JsonBody(OneRange),
     JsonBody(AtRowColumn), JsonBody(JNull)}
ClientRequests ==
    {HttpRequest(m, p, EmptyBody) :
        m \in {"GET", "POST", "OPTIONS", "PUT"}, p \in ClientTargets}
    \cup {HttpRequest("GET", <<"tools", n>>, EmptyBody) :
            n \in {Concat(c) : c \in Spellings}}
    \cup {HttpRequest("POST", <<"tools", n>>, b) :
            n \in {Concat(c) : c \in Spellings}, b \in ClientBodies}

(***************************************************************************)
(* Actions                                                                 *)
(***************************************************************************)
\* The windows of the host application, and the ports from the default one
\* upwards that they and other programs may hold
Windows == 1..MaxWindows
Ports == DEFAULT_PORT..(DEFAULT_PORT + MaxWindows)

\* Who holds a port: nobody, the bridge of a window, or another program
Free == [by |-> "nobody", w |-> 0]
HeldBy(w) == [by |-> "window", w |-> w]
Other == [by |-> "other", w |-> 0]

\* The value startBridge returned in a window: at is "none" before the
\* call, "created" once it returned (server.listen is under way),
\* "listening" and "failed" once the listen settled, "closed" after a close;
\* port is the port member of the returned object, bound the port the
\* server's socket holds (0: none), stops how each call of stop completed.
\* host is the address the server listens on; idle counts the keep-alive
\* connections without a request in progress, pending the connections
\* whose request has no response yet.
Bridge(at, port, bound, stops) ==
    [at |-> at, port |-> port, bound |-> bound, stops |-> stops,
     host |-> DEFAULT_HOST, idle |-> 0, pending |-> 0]
NoBridge == Bridge("none", 0, 0, <<>>)

NoExchange ==
    [req |-> HttpRequest("", <<>>, EmptyBody), res |-> FetchFailed, ran |-> NoCall]

\* getRelativePath has not been called
NoRelative == [filePath |-> <<>>, projectPaths |-> <<>>, given |-> FALSE,
               result |-> <<>>, called |-> FALSE]

Init ==
    /\ running = TRUE
    /\ lines = 0
    /\ last = "none"
    /\ handlers = <<>>
    /\ stdout = <<>>
    /\ listener \in {"none"} \cup Variants
    /\ host \in {HostOf(FALSE, <<>>), HostOf(TRUE, <<"/proj">>)}
    /\ https = 0
    /\ exchange = NoExchange
    /\ bridges = [w \in Windows |-> NoBridge]
    /\ ports = [p \in Ports |-> Free]
    /\ relative = NoRelative

\* send(msg): one line of stdout per message.  A line is kept as the
\* message it serializes; the member JSON.stringify leaves out (result of
\* an error, error of a result) is NoResult, NoRpcError.
send(msg) == stdout' = Append(stdout, msg)

\* A call of handleRequest(req) that has reached `at`: "health" and "post"
\* await the fetch of checkBridge and of callBridge, "settled" has the
\* outcome in out and the line handler has yet to resume, "done" has sent.
\* health and res record what the fetch of GET /health and of POST
\* /tools/<name> gave, posted whether that POST was sent, and sent the
\* position in stdout of the message sent for the call (0: none yet).
Handler(req, at, out, health, posted, res) ==
    [req |-> req, at |-> at, out |-> out, health |-> health,
     posted |-> posted, res |-> res, sent |-> 0]

NoFetch == [k |-> "none", status |-> 0, headers |-> {}, json |-> FALSE,
            body |-> JUndef]

Started(req) ==
    LET o == handleRequest(req) IN
    IF o.k = "await" THEN Handler(req, "health", o, NoFetch, FALSE, NoFetch)
    ELSE Handler(req, "settled", o, NoFetch, FALSE, NoFetch)

\* A line handler that tests req.id === null instead
IsNotificationNull(req) == Get(req, "id") = JNull

\* req.id === undefined
IsNotification(req) == Get(req, "id") = JUndef

\* Evaluating req.id throws for the value null
CanReadId(req) == req.t # "null"

\* rl.on("line", ...) up to the first await
OnLine(line) ==
    /\ running
    /\ lines < MaxLines
    /\ lines' = lines + 1
    /\ UNCHANGED <<relative, listener, host, https, exchange, bridges, ports>>
    /\ IF ~line.ok
       THEN /\ send(ParseError)
            /\ last' = "malformed"
            /\ UNCHANGED <<running, handlers>>
       ELSE IF ~CanReadId(line.v)
       THEN \* req.id throws outside the try: the promise of the line
            \* handler rejects, nothing handles it, and node exits
            /\ running' = FALSE
            /\ last' = "null"
            /\ UNCHANGED <<handlers, stdout>>
       ELSE IF IsNotification(line.v)
       THEN /\ last' = IF line.v.t = "obj" THEN "notification" ELSE "value"
            /\ UNCHANGED <<running, handlers, stdout>>
       ELSE /\ handlers' = Append(handlers, Started(line.v))
            /\ last' = "request"
            /\ UNCHANGED <<running, stdout>>

\* The response of whoever listens on BRIDGE_HOST:BRIDGE_PORT
Fetch(req, h, fault, status) ==
    CASE listener = "none" -> Served(FetchFailed, h)
      [] listener = "other" -> Served(HttpResponse(status, {}, FALSE, JUndef), h)
      [] OTHER -> requestListener(listener, req, h, fault)

\* The fetch of checkBridge completes and handleRequest resumes
HealthDone(i, status) ==
    /\ running
    /\ handlers[i].at = "health"
    /\ LET Resumed(res, o) ==
               handlers' = [handlers EXCEPT ![i] =
                   IF o.k = "await"
                   THEN Handler(@.req, "post", o, res, TRUE, NoFetch)
                   ELSE Handler(@.req, "settled", o, res, FALSE, NoFetch)]
           Checked(res) ==
               Resumed(res, handleRequestChecked(handlers[i].req, checkBridge(res)))
       IN  Checked(Fetch(HttpRequest("GET", <<"health">>, EmptyBody), host, FALSE,
                         status).res)
    /\ UNCHANGED <<relative, running, lines, last, stdout, listener, host, https, exchange,
                   bridges, ports>>

\* The fetch of callBridge completes and handleRequest resumes.  Another
\* program on the port has no such route: callBridge parses the body, which
\* is not JSON, before it reads the status.
PostDone(i, fault) ==
    /\ running
    /\ handlers[i].at = "post"
    /\ LET req == handlers[i].req
           toolName == Str(CallName(req))
           Resumed(served) ==
               /\ handlers' = [handlers EXCEPT ![i] =
                      Handler(@.req, "settled",
                              handleRequestCalled(req, callBridge(toolName, served.res)),
                              @.health, @.posted, served.res)]
               /\ host' = served.host
       IN  Resumed(Fetch(HttpRequest("POST", <<"tools", toolName>>,
                                     JsonBody(CallArgs(req))),
                         host, fault, 404))
    /\ UNCHANGED <<relative, running, lines, last, stdout, listener, https, exchange,
                   bridges, ports>>

\* The line handler resumes after `await handleRequest(req)` and sends
Respond(i) ==
    /\ running
    /\ handlers[i].at = "settled"
    /\ send(Reply(handlers[i].req, handlers[i].out))
    /\ handlers' = [handlers EXCEPT ![i].at = "done",
                                    ![i].sent = Len(stdout) + 1]
    /\ UNCHANGED <<relative, running, lines, last, listener, host, https, exchange,
                   bridges, ports>>

\* startBridge() of a host application window
startBridge(variant) ==
    /\ listener = "none"
    /\ listener' = variant
    /\ UNCHANGED <<relative, running, lines, last, handlers, stdout, host, https, exchange,
                   bridges, ports>>

\* stopBridge(bridge)
stopBridge ==
    /\ listener \in Variants
    /\ listener' = "none"
    /\ UNCHANGED <<relative, running, lines, last, handlers, stdout, host, https, exchange,
                   bridges, ports>>

\* Another program takes the port, or gives it up
OtherListens ==
    /\ listener = "none"
    /\ listener' = "other"
    /\ UNCHANGED <<relative, running, lines, last, handlers, stdout, host, https, exchange,
                   bridges, ports>>

OtherCloses ==
    /\ listener = "other"
    /\ listener' = "none"
    /\ UNCHANGED <<relative, running, lines, last, handlers, stdout, host, https, exchange,
                   bridges, ports>>

\* Another HTTP client sends a request to the bridge and gets its response
ClientRequest(req, fault) ==
    /\ listener \in Variants
    /\ https < MaxHttp
    /\ https' = https + 1
    /\ LET Answered(served) ==
               /\ exchange' = [req |-> req, res |-> served.res, ran |-> served.ran]
               /\ host' = served.host
       IN  Answered(requestListener(listener, req, host, fault))
    /\ UNCHANGED <<relative, running, lines, last, handlers, stdout, listener, bridges, ports>>

OtherStatus == {200, 404}

\* The stdio server, the bridge it calls and whatever else takes the port
Next ==
    \/ \E line \in (IF \A i \in 1..Len(handlers) : IsCore(handlers[i].req)
                   THEN Lines[lines + 1] ELSE CoreLines[lines + 1]) : OnLine(line)
    \/ \E i \in 1..Len(handlers), status \in OtherStatus : HealthDone(i, status)
    \/ \E i \in 1..Len(handlers), fault \in BOOLEAN : PostDone(i, fault)
    \/ \E i \in 1..Len(handlers) : Respond(i)
    \/ \E variant \in Variants : startBridge(variant)
    \/ stopBridge
    \/ OtherListens
    \/ OtherCloses

Spec == Init /\ [][Next]_vars

\* The lines the agent writes while other HTTP clients use the bridge: a
\* listing and two calls
BridgeLines ==
    [n \in 1..(MaxBridgeLines + 1) |->
        {Line(TRUE, Request(JNum(n), JStr("tools/list"), JUndef))}
        \cup {Line(TRUE, Request(JNum(n), JStr("tools/call"),
                        JSONroundtrip(JObj(<<KV("name", JStr(name))>>)))) :
                 name \in {"GetProjectPaths", "FindText"}}]

\* The bridge with its two kinds of client: the stdio server and others
NextBridge ==
    \/ \E line \in BridgeLines[lines + 1] : lines < MaxBridgeLines /\ OnLine(line)
    \/ \E i \in 1..Len(handlers), status \in OtherStatus : HealthDone(i, status)
    \/ \E i \in 1..Len(handlers), fault \in BOOLEAN : PostDone(i, fault)
    \/ \E i \in 1..Len(handlers) : Respond(i)
    \/ \E variant \in Variants : startBridge(variant)
    \/ stopBridge
    \/ \E req \in ClientRequests, fault \in BOOLEAN : ClientRequest(req, fault)

SpecBridge == Init /\ [][NextBridge]_vars

(***************************************************************************)
(* The bridges of several windows and the ports they listen on             *)
(***************************************************************************)
\* The port setting of the package: not set, or a port
\* A config object; port 0 and host "" stand for a member that is not set
Config(port, address) == [port |-> port, host |-> address]
NoConfig == Config(0, "")
Configs == {NoConfig, Config(DEFAULT_PORT + 1, "")}

\* config.port ?? DEFAULT_PORT
PortOf(config) == IF config.port = 0 THEN DEFAULT_PORT ELSE config.port

\* config.host ?? DEFAULT_HOST
HostOfConfig(config) == IF config.host = "" THEN DEFAULT_HOST ELSE config.host

\* startBridge(config) in window w: creates the server, calls
\* server.listen(port, host), logs and returns { port, host, stop }
startBridgeIn(w, config) ==
    /\ bridges[w].at = "none"
    /\ bridges' = [bridges EXCEPT ![w] =
                      [Bridge("created", PortOf(config), 0, <<>>)
                          EXCEPT !.host = HostOfConfig(config)]]
    /\ UNCHANGED <<relative, running, lines, last, handlers, stdout, listener, host, https,
                   exchange, ports>>

\* The listen of window w's server settles: the socket binds the port when
\* it is free; when it is held, the server emits 'error' (EADDRINUSE),
\* which has no listener, and the server holds no port.
listen(w) ==
    /\ bridges[w].at = "created"
    /\ IF ports[bridges[w].port] = Free
       THEN /\ ports' = [ports EXCEPT ![bridges[w].port] = HeldBy(w)]
            /\ bridges' = [bridges EXCEPT ![w].at = "listening",
                                          ![w].bound = bridges[w].port]
       ELSE /\ bridges' = [bridges EXCEPT ![w].at = "failed"]
            /\ UNCHANGED ports
    /\ UNCHANGED <<relative, running, lines, last, handlers, stdout, listener, host, https,
                   exchange>>

\* bridge.stop() in window w, called after the listen settled and with no
\* client connected: server.close(cb) closes a listening socket and calls
\* cb(); on a server that is not listening it calls cb(err)
\* (ERR_SERVER_NOT_RUNNING) and the promise rejects.
stop(w) ==
    /\ bridges[w].at \in {"listening", "failed", "closed"}
    /\ Len(bridges[w].stops) < MaxStops
    /\ IF bridges[w].at = "listening"
       THEN /\ ports' = [ports EXCEPT ![bridges[w].bound] = Free]
            /\ bridges' = [bridges EXCEPT ![w].at = "closed",
                                          ![w].bound = 0,
                                          ![w].stops = Append(@, "resolved")]
       ELSE /\ bridges' = [bridges EXCEPT ![w].stops = Append(@, "rejected")]
            /\ UNCHANGED ports
    /\ UNCHANGED <<relative, running, lines, last, handlers, stdout, listener, host, https,
                   exchange>>

\* Another program binds a free port, or gives up the port it holds
OtherBinds(p) ==
    /\ ports[p] = Free
    /\ ports' = [ports EXCEPT ![p] = Other]
    /\ UNCHANGED <<relative, running, lines, last, handlers, stdout, listener, host, https,
                   exchange, bridges>>

OtherReleases(p) ==
    /\ ports[p] = Other
    /\ ports' = [ports EXCEPT ![p] = Free]
    /\ UNCHANGED <<relative, running, lines, last, handlers, stdout, listener, host, https,
                   exchange, bridges>>

InitPorts ==
    /\ Init
    /\ listener = "none"
    /\ host = HostOf(FALSE, <<>>)

NextPorts ==
    \/ \E w \in Windows, config \in Configs : startBridgeIn(w, config)
    \/ \E w \in Windows : listen(w)
    \/ \E w \in Windows : stop(w)
    \/ \E p \in Ports : OtherBinds(p)
    \/ \E p \in Ports : OtherReleases(p)

SpecPorts == InitPorts /\ [][NextPorts]_vars

(***************************************************************************)
(* One bridge, the clients connected to it, and its shutdown                *)
(***************************************************************************)
\* The configs a caller of startBridge may pass: with and without a port,
\* with a loopback host and with hosts that are not loopback
HostConfigs ==
    Configs \cup {Config(0, "::1"), Config(0, "0.0.0.0"),
                  Config(DEFAULT_PORT + 1, "192.168.1.5")}

\* A client opens a connection to the bridge of window w, gets the
\* response to a request and keeps the connection alive
accept(w) ==
    /\ bridges[w].at = "listening"
    /\ bridges[w].idle < MaxConns
    /\ bridges' = [bridges EXCEPT ![w].idle = @ + 1]
    /\ UNCHANGED <<relative, running, lines, last, handlers, stdout, listener, host, https,
                   exchange, ports>>

\* The server closes a keep-alive connection that has been idle for
\* server.keepAliveTimeout
keepAliveTimeout(w) ==
    /\ bridges[w].idle > 0
    /\ bridges' = [bridges EXCEPT ![w].idle = @ - 1]
    /\ UNCHANGED <<relative, running, lines, last, handlers, stdout, listener, host, https,
                   exchange, ports>>

\* A client sends a request the listener leaves without a response (the
\* target //, for which new URL throws outside the try) and waits
hold(w) ==
    /\ bridges[w].at = "listening"
    /\ bridges[w].pending < MaxConns
    /\ requestListener("direct", HttpRequest("GET", <<"", "">>, EmptyBody),
                       host, FALSE).res = NoAnswer
    /\ bridges' = [bridges EXCEPT ![w].pending = @ + 1]
    /\ UNCHANGED <<relative, running, lines, last, handlers, stdout, listener, host, https,
                   exchange, ports>>

\* A client that waits for a response gives up and closes its connection
hangUp(w) ==
    /\ bridges[w].pending > 0
    /\ bridges' = [bridges EXCEPT ![w].pending = @ - 1]
    /\ UNCHANGED <<relative, running, lines, last, handlers, stdout, listener, host, https,
                   exchange, ports>>

\* A stop that leaves the listening socket open until the connections
\* have ended
closeLater(w) ==
    /\ bridges[w].at \in {"listening", "failed", "closing", "closed"}
    /\ Len(bridges[w].stops) < MaxStops
    /\ IF bridges[w].at = "listening"
       THEN bridges' = [bridges EXCEPT ![w].at = "closing"]
       ELSE bridges' = [bridges EXCEPT ![w].stops = Append(@, "rejected")]
    /\ UNCHANGED <<relative, running, lines, last, handlers, stdout, listener, host, https,
                   exchange, ports>>

\* bridge.stop() in window w: server.close(cb).  On a listening server the
\* listening socket is closed at once and cb waits for the connections to
\* end; on a server that is not listening cb gets ERR_SERVER_NOT_RUNNING
\* and the promise rejects.
close(w) ==
    /\ bridges[w].at \in {"listening", "failed", "closing", "closed"}
    /\ Len(bridges[w].stops) < MaxStops
    /\ IF bridges[w].at = "listening"
       THEN /\ ports' = [ports EXCEPT ![bridges[w].bound] = Free]
            /\ bridges' = [bridges EXCEPT ![w].at = "closing", ![w].bound = 0]
       ELSE /\ bridges' = [bridges EXCEPT ![w].stops = Append(@, "rejected")]
            /\ UNCHANGED ports
    /\ UNCHANGED <<relative, running, lines, last, handlers, stdout, listener, host, https,
                   exchange>>

\* The server emits 'close' once no connection is left: cb() runs and the
\* promise of the first stop resolves
closed(w) ==
    /\ bridges[w].at = "closing"
    /\ bridges[w].idle = 0 /\ bridges[w].pending = 0
    /\ bridges' = [bridges EXCEPT ![w].at = "closed",
                                  ![w].stops = <<"resolved">> \o @]
    /\ UNCHANGED <<relative, running, lines, last, handlers, stdout, listener, host, https,
                   exchange, ports>>

\* The window and the ports of this specification
StopWindows == {1}
StopPorts == {DEFAULT_PORT, DEFAULT_PORT + 1}

\* What the server does by itself
ServerStep ==
    \E w \in StopWindows : listen(w) \/ keepAliveTimeout(w) \/ closed(w)

NextStop ==
    \/ \E w \in StopWindows, config \in HostConfigs : startBridgeIn(w, config)
    \/ \E w \in StopWindows : listen(w)
    \/ \E w \in StopWindows : accept(w)
    \/ \E w \in StopWindows : keepAliveTimeout(w)
    \/ \E w \in StopWindows : hold(w)
    \/ \E w \in StopWindows : hangUp(w)
    \/ \E w \in StopWindows : close(w)
    \/ \E w \in StopWindows : closed(w)
    \/ \E p \in StopPorts : OtherBinds(p)
    \/ \E p \in StopPorts : OtherReleases(p)

\* The server's own steps are taken when they can be; what clients and
\* other programs do is up to them.
SpecStop == InitPorts /\ [][NextStop]_vars /\ WF_vars(ServerStep)

(***************************************************************************)
(* Path utilities (paths.js).  A path is the sequence of its characters.   *)
(***************************************************************************)
\* The characters of the project roots of the host state
PathSpelling ==
    [s \in {"/proj"} |-> <<"/", "p", "r", "o", "j">>]

\* atom.project.getPaths()
getPaths(h) == [i \in 1..Len(h.paths) |-> PathSpelling[h.paths[i]]]

\* s.startsWith(p)
StartsWith(s, p) == Len(p) <= Len(s) /\ SubSeq(s, 1, Len(p)) = p

\* s.slice(n) for n >= 0
Slice(s, n) == IF n >= Len(s) THEN <<>> ELSE SubSeq(s, n + 1, Len(s))

\* s.replace(/\\/g, "/")
ReplaceBackslashes(s) == [i \in 1..Len(s) |-> IF s[i] = "\\" THEN "/" ELSE s[i]]

\* for (const projectPath of paths) { if (filePath.startsWith(projectPath))
\* return filePath.slice(projectPath.length + 1).replace(/\\/g, "/") }
\* return filePath
RECURSIVE FirstRoot(_, _)
FirstRoot(filePath, paths) ==
    IF paths = <<>> THEN filePath
    ELSE IF StartsWith(filePath, Head(paths))
    THEN ReplaceBackslashes(Slice(filePath, Len(Head(paths)) + 1))
    ELSE FirstRoot(filePath, Tail(paths))

\* getRelativePath(filePath, projectPaths = null): projectPaths is given
\* or null, and then the project roots of the host are taken
getRelativePath(filePath, given, projectPaths, h) ==
    LET paths == IF given THEN projectPaths ELSE getPaths(h)
    IN  FirstRoot(filePath, paths)

\* The file paths and project roots getRelativePath is called with:
\* /proj/x, /proj2/x, /projx, /proj, /b/x and /proj/d\x; /proj, /proj2, /b
FilePaths ==
    {<<"/", "p", "r", "o", "j", "/", "x">>,
     <<"/", "p", "r", "o", "j", "2", "/", "x">>,
     <<"/", "p", "r", "o", "j", "x">>,
     <<"/", "p", "r", "o", "j">>,
     <<"/", "b", "/", "x">>,
     <<"/", "p", "r", "o", "j", "/", "d", "\\", "x">>}
Roots ==
    {<<"/", "p", "r", "o", "j">>, <<"/", "p", "r", "o", "j", "2">>, <<"/", "b">>}
MaxRoots == 2
RootLists ==
    UNION {[1..n -> Roots] : n \in 0..MaxRoots}

\* A call getRelativePath(filePath, projectPaths)
relativeTo(filePath, projectPaths) ==
    /\ relative' = [filePath |-> filePath, projectPaths |-> projectPaths,
                    given |-> TRUE,
                    result |-> getRelativePath(filePath, TRUE, projectPaths, host),
                    called |-> TRUE]
    /\ UNCHANGED <<running, lines, last, handlers, stdout, listener, host, https,
                   exchange, bridges, ports>>

\* A call getRelativePath(filePath)
relativeToProject(filePath) ==
    /\ relative' = [filePath |-> filePath, projectPaths |-> getPaths(host),
                    given |-> FALSE,
                    result |-> getRelativePath(filePath, FALSE, <<>>, host),
                    called |-> TRUE]
    /\ UNCHANGED <<running, lines, last, handlers, stdout, listener, host, https,
                   exchange, bridges, ports>>

InitPaths ==
    /\ Init
    /\ listener = "none"

NextPaths ==
    \/ \E filePath \in FilePaths, projectPaths \in RootLists :
          relativeTo(filePath, projectPaths)
    \/ \E filePath \in FilePaths : relativeToProject(filePath)

SpecPaths == InitPaths /\ [][NextPaths]_vars

(***************************************************************************)
(* Properties of the stdio server                                          *)
(***************************************************************************)
IdOf(h) == Get(h.req, "id")
MethodOf(h) == Get(h.req, "method")
NameOf(h) == Get(Get(h.req, "params"), "name")

\* The message written for a call of handleRequest that has sent
Answer(h) == stdout[h.sent]

\* A fetch got a response with a 2xx status
Fetched2xx(res) == res.k = "response" /\ res.status \in 200..299
\* A fetch got no response, or one whose status is not 2xx
Unreachable(res) == res.k = "failed" \/ (res.k = "response" /\ res.status \notin 200..299)

\* The text names the host and port the stdio server resolved
NamesHostPort(message) ==
    \E k \in 1..(Len(message) - 2) :
        /\ message[k] = BRIDGE_HOST
        /\ message[k + 1] = ":"
        /\ message[k + 2] = ToString(BRIDGE_PORT)

InCatalog(name) == \E t \in 1..Len(tools) : JStr(tools[t].name) = name

\* C1: a step that reads a line that is not valid JSON writes exactly one
\* message, the error -32700 with id null, starts no call of handleRequest
\* and leaves the process running, so that it reads and answers the lines
\* that follow.
C1_ParseErrorAnswered ==
    [][(lines' = lines + 1 /\ last' = "malformed") =>
          /\ Len(stdout') = Len(stdout) + 1
          /\ SubSeq(stdout', 1, Len(stdout)) = stdout
          /\ stdout'[Len(stdout')].id = JNull
          /\ stdout'[Len(stdout')].error.code = -32700
          /\ stdout'[Len(stdout')].result = NoResult
          /\ handlers' = handlers
          /\ running']_vars

\* C1 witness: the first line was not valid JSON and got the parse error,
\* the second was a request and got its result.
C1_Witness ==
    /\ lines = 2 /\ last = "request"
    /\ Len(stdout) = 2
    /\ stdout[1].id = JNull /\ stdout[1].error.code = -32700
    /\ stdout[2].id = JNum(2) /\ stdout[2].result # NoResult

\* C2: a step that reads a message without id writes nothing and starts no
\* call of handleRequest; no call in progress and no message written is for
\* a message without id.
C2_NotificationsUnanswered ==
    /\ [](/\ \A i \in 1..Len(handlers) : IdOf(handlers[i]) # JUndef
          /\ \A k \in 1..Len(stdout) : stdout[k].id # JUndef)
    /\ [][(lines' = lines + 1 /\ last' \in {"notification", "value"}) =>
             (stdout' = stdout /\ handlers' = handlers)]_vars

\* C2 witness: with a bridge running, a request was answered, then a
\* notification was read, and stdout holds the one answer only.
C2_Witness ==
    /\ lines = 2 /\ last = "notification"
    /\ listener \in Variants
    /\ Len(handlers) = 1 /\ handlers[1].at = "done"
    /\ Len(stdout) = 1

\* C3: every request that carries an id is answered: a call of
\* handleRequest that has not sent its response yet is in a process that
\* is alive to send it.
C3_EveryRequestAnswered ==
    \A i \in 1..Len(handlers) : handlers[i].at # "done" => running

\* C4: a tools/call whose health check found the bridge unreachable sends
\* no POST, and the message written for it is the error -32603 with the
\* request's id and a text that names host:port.
C4_UnreachableBridge ==
    \A i \in 1..Len(handlers) :
        LET h == handlers[i] IN
        Unreachable(h.health) =>
            /\ ~h.posted
            /\ h.at \in {"settled", "done"}
            /\ h.at = "done" =>
                 /\ Answer(h).id = IdOf(h)
                 /\ Answer(h).result = NoResult
                 /\ Answer(h).error.code = -32603
                 /\ NamesHostPort(Answer(h).error.message)

\* C4 witness: one call answered after a health check that got no response,
\* one after a health check that got a status that is not 2xx.
C4_Witness ==
    /\ Len(handlers) = 2
    /\ handlers[1].at = "done" /\ handlers[1].health.k = "failed"
    /\ handlers[2].at = "done" /\ handlers[2].health.k = "response"
    /\ handlers[2].health.status = 404

\* C5: a tools/call whose health check succeeded and whose name is not in
\* the Tool Catalog sends no POST, and the message written for it is the
\* error -32601 with the request's id.
C5_UnknownToolLocal ==
    \A i \in 1..Len(handlers) :
        LET h == handlers[i] IN
        (Fetched2xx(h.health) /\ ~InCatalog(NameOf(h))) =>
            /\ ~h.posted
            /\ h.at \in {"settled", "done"}
            /\ h.at = "done" =>
                 /\ Answer(h).id = IdOf(h)
                 /\ Answer(h).result = NoResult
                 /\ Answer(h).error.code = -32601

\* C5 witness: a call of a tool the bridge has and the catalog has not,
\* answered while a bridge is running.
C5_Witness ==
    \E i \in 1..Len(handlers) :
        /\ handlers[i].at = "done"
        /\ NameOf(handlers[i]) = JStr("GetSelection")
        /\ Fetched2xx(handlers[i].health)
        /\ handlers[i].health.json

KnownMethods == {JStr("initialize"), JStr("tools/list"), JStr("tools/call")}

\* C6: a request with an id and a method other than initialize, tools/list
\* and tools/call makes no HTTP request, the message written for it is the
\* error -32601 with the request's id, and the steps that start and that
\* answer it leave the process running.
C6_MethodNotFound ==
    /\ [](\A i \in 1..Len(handlers) :
            LET h == handlers[i] IN
            MethodOf(h) \notin KnownMethods =>
                /\ h.health = NoFetch /\ ~h.posted
                /\ h.at \in {"settled", "done"}
                /\ h.at = "done" =>
                     /\ Answer(h).id = IdOf(h)
                     /\ Answer(h).result = NoResult
                     /\ Answer(h).error.code = -32601)
    /\ [][\A i \in 1..Len(handlers') :
            (/\ MethodOf(handlers'[i]) \notin KnownMethods
             /\ (i > Len(handlers) \/ handlers[i].at # handlers'[i].at))
            => running']_vars

\* C6 witness: the first request had an unknown method and got -32601, the
\* second request got its result after it.
C6_Witness ==
    /\ Len(handlers) = 2 /\ Len(stdout) = 2
    /\ MethodOf(handlers[1]) = JStr("ping")
    /\ handlers[1].sent = 1 /\ stdout[1].error.code = -32601
    /\ handlers[2].sent = 2 /\ stdout[2].result # NoResult

\* The response of a bridge to POST /tools/<name>: a JSON object
FromBridge(res) == res.k = "response" /\ res.json /\ res.body.t = "obj"

\* The text of the error a failed tool call is answered with: the error
\* the bridge supplied, or the generic one
FailureText(h) ==
    LET e == Get(h.res.body, "error") IN
    IF e.t = "str" /\ e.s # "" THEN <<e.s>>
    ELSE <<"Tool call failed: ", Str(NameOf(h))>>

\* C7: a tools/call whose POST got from the bridge a status that is not 2xx
\* or a body with success false is answered with an error, never a result,
\* whose text is the error of the body, or the generic one when the body
\* has none.
C7_BridgeFailure ==
    \A i \in 1..Len(handlers) :
        LET h == handlers[i] IN
        (/\ h.posted /\ FromBridge(h.res)
         /\ (~Fetched2xx(h.res) \/ Get(h.res.body, "success") # JBool(TRUE))) =>
            /\ h.at \in {"settled", "done"}
            /\ h.at = "done" =>
                 /\ Answer(h).id = IdOf(h)
                 /\ Answer(h).result = NoResult
                 /\ Answer(h).error # NoRpcError
                 /\ Answer(h).error.message = FailureText(h)

\* C7 witness: two failed calls answered, one with the error the bridge
\* supplied and one, whose body had no error, with the generic text.
C7_Witness ==
    /\ Len(handlers) = 2
    /\ \A i \in 1..2 :
          /\ handlers[i].at = "done" /\ handlers[i].posted
          /\ FromBridge(handlers[i].res)
          /\ handlers[i].res.status = 400
    /\ Get(handlers[1].res.body, "error") = JUndef
    /\ Answer(handlers[1]).error.message = <<"Tool call failed: ", "InsertText">>
    /\ Get(handlers[2].res.body, "error") = JStr("Unknown tool: FindText")
    /\ Answer(handlers[2]).error.message = <<"Unknown tool: FindText">>

\* C8: a tools/call whose POST got from the bridge a 2xx status and a body
\* with success true is answered, under the request's id, with the result
\* whose content is one element of type text, its text the JSON
\* serialization of the data of the body; for GetProjectPaths with no
\* project open that text is [].
C8_SuccessContent ==
    \A i \in 1..Len(handlers) :
        LET h == handlers[i] IN
        (/\ h.posted /\ FromBridge(h.res) /\ Fetched2xx(h.res)
         /\ Get(h.res.body, "success") = JBool(TRUE)) =>
            /\ h.at \in {"settled", "done"}
            /\ (NameOf(h) = JStr("GetProjectPaths") /\ host.paths = <<>>) =>
                  Get(h.res.body, "data") = JArr(<<>>)
            /\ h.at = "done" =>
                 LET data == Get(h.res.body, "data") IN
                 /\ Answer(h).id = IdOf(h)
                 /\ Answer(h).error = NoRpcError
                 /\ DOMAIN Answer(h).result = {"content"}
                 /\ Len(Answer(h).result.content) = 1
                 /\ Answer(h).result.content[1].type = "text"
                 /\ Answer(h).result.content[1].text = JSONstringify(data, 2)
                 /\ data = JArr(<<>>) => Answer(h).result.content[1].text = <<"[]">>
                 /\ data = JArr(<<JStr("/proj")>>) =>
                      Answer(h).result.content[1].text
                        = <<"[", "\n  ", "\"/proj\"", "\n", "]">>
                 /\ data = JObj(<<KV("inserted", JBool(TRUE))>>) =>
                      Answer(h).result.content[1].text
                        = <<"{", "\n  ", "\"inserted\":", " ", "true", "\n", "}">>

\* C8 witness: GetProjectPaths answered with the text [] while no project
\* is open.
C8_Witness ==
    \E i \in 1..Len(handlers) :
        /\ handlers[i].at = "done"
        /\ NameOf(handlers[i]) = JStr("GetProjectPaths")
        /\ host.paths = <<>>
        /\ Answer(handlers[i]).id = IdOf(handlers[i])
        /\ Answer(handlers[i]).result # NoResult
        /\ Answer(handlers[i]).result.content[1].text = <<"[]">>

(***************************************************************************)
(* Properties of the catalog and the bridge                                *)
(***************************************************************************)
\* The text the bridge answers a name it does not know with
UnknownToolText(name) == JStr("Unknown tool: " \o name)

\* The last request of another client was POST /tools/<name> with a name
\* the router accepts and a body that parses
PostedTool ==
    /\ exchange.req.method = "POST"
    /\ toolMatch(exchange.req.url)
    /\ exchange.req.body.k # "malformed"

\* C9: the names of the catalog and the names the bridge executes are the
\* same: a call of a catalog name that the stdio server forwards is never
\* answered by the bridge with Unknown tool, and a name the bridge does
\* not answer with Unknown tool is a name of the catalog.
C9_NamesNeverDiverge ==
    /\ \A i \in 1..Len(handlers) :
          LET h == handlers[i] IN
          (InCatalog(NameOf(h)) /\ h.posted /\ FromBridge(h.res)) =>
              Get(h.res.body, "error") # UnknownToolText(Str(NameOf(h)))
    /\ (PostedTool /\ Get(exchange.res.body, "error")
                        # UnknownToolText(exchange.req.url[2]))
          => InCatalog(JStr(exchange.req.url[2]))

\* The listing of the answer to tools/list, the listing of the response to
\* the last GET /tools
Listed(h) == Answer(h).result.tools
ServedListing == Get(exchange.res.body, "tools").value

\* C10: once tools/list is answered and GET /tools is served, the two
\* listings have the same length, agree entry by entry in name,
\* description and schema, and each is the catalog in its order.
C10_ListingsIdentical ==
    \A i \in 1..Len(handlers) :
        LET h == handlers[i] IN
        (/\ MethodOf(h) = JStr("tools/list") /\ h.at = "done"
         /\ exchange.req.method = "GET" /\ exchange.req.url = <<"tools">>) =>
            /\ Len(Listed(h)) = Len(ServedListing)
            /\ \A k \in 1..Len(Listed(h)) :
                  /\ Listed(h)[k].name = ServedListing[k].name
                  /\ Listed(h)[k].description = ServedListing[k].description
                  /\ Listed(h)[k].inputSchema = ServedListing[k].inputSchema
            /\ NamesOf(Listed(h)) = NamesOf(tools)
            /\ NamesOf(ServedListing) = NamesOf(tools)

\* C10 witness: tools/list is answered with the ten tools and another
\* client has been served GET /tools with ten tools.
C10_Witness ==
    /\ Len(handlers) = 1 /\ handlers[1].at = "done"
    /\ MethodOf(handlers[1]) = JStr("tools/list")
    /\ Len(Listed(handlers[1])) = 10
    /\ exchange.req.method = "GET" /\ exchange.req.url = <<"tools">>
    /\ exchange.res.status = 200
    /\ Len(ServedListing) = 10


(***************************************************************************)
(* Properties of the bridge's ports and of its stop                        *)
(***************************************************************************)
\* A port from p upwards is free
SomeFree(p) == \E q \in Ports : q >= p /\ ports[q] = Free

\* The first free port from p upwards
FirstFree(p) ==
    CHOOSE q \in Ports :
        /\ q >= p /\ ports[q] = Free
        /\ \A r \in Ports : (r >= p /\ r < q) => ports[r] # Free

\* The listen of every window has settled
AllSettled == \A w \in Windows : bridges[w].at \in {"listening", "failed"}

\* C11: when the base port is held at the time a new bridge's listen
\* settles (and some port from it upwards is free), the bridge does not
\* fail: it listens on the first free port from the base port upwards.
C11_PortDiscovery ==
    [][\A w \in Windows :
          (/\ bridges[w].at = "created" /\ bridges'[w].at # "created"
           /\ ports[bridges[w].port] # Free
           /\ SomeFree(bridges[w].port)) =>
              /\ bridges'[w].at = "listening"
              /\ bridges'[w].bound = FirstFree(bridges[w].port)]_vars

\* C12: once the listen of a bridge has settled, the port member of the
\* value startBridge returned is the port the bridge's socket holds.
C12_ReportedPortIsBound ==
    \A w \in Windows :
        bridges[w].at \in {"listening", "failed"} =>
            bridges[w].bound = bridges[w].port

\* C13: when all windows were started with the same base port and every
\* listen has settled, all bridges listen and no two hold the same port;
\* and a step of one window leaves the listening bridge of another as it is.
C13_DistinctPorts ==
    /\ [](( /\ AllSettled
            /\ \A v, w \in Windows : bridges[v].port = bridges[w].port) =>
              /\ \A w \in Windows : bridges[w].at = "listening"
              /\ \A v, w \in Windows :
                     v # w => bridges[v].bound # bridges[w].bound)
    /\ [][\A v, w \in Windows :
             (v # w /\ bridges[v].at = "listening" /\ bridges'[w] # bridges[w]) =>
                 (bridges'[v] = bridges[v]
                  /\ ports'[bridges[v].bound] = HeldBy(v))]_vars

\* C14: every call of stop on a bridge completes as the first one did: when
\* the first call resolved, the calls after it resolve too, and the bridge
\* stays closed and holds no port.
C14_StopIdempotent ==
    \A w \in Windows :
        (bridges[w].stops # <<>> /\ bridges[w].stops[1] = "resolved") =>
            /\ \A i \in 1..Len(bridges[w].stops) : bridges[w].stops[i] = "resolved"
            /\ bridges[w].at = "closed" /\ bridges[w].bound = 0

(***************************************************************************)
(* Properties of the bridge's HTTP server                                  *)
(***************************************************************************)
\* The last request of another client was this method on this target
Asked(method, url) ==
    https > 0 /\ exchange.req.method = method /\ exchange.req.url = url

\* The step serves GET /health: to another client, or to the checkBridge of
\* the stdio server while a bridge listens
HealthServed ==
    \/ /\ https' # https
       /\ exchange'.req.method = "GET" /\ exchange'.req.url = <<"health">>
    \/ /\ listener \in Variants
       /\ \E i \in 1..Len(handlers) :
             handlers[i].at = "health" /\ handlers'[i].at # "health"

\* C15: while the bridge runs, every GET /health is answered 200 with
\* status "ok" and without a call of executeTool, and the step that serves
\* it changes neither the host state nor the bridge.
C15_HealthIdempotent ==
    /\ [](/\ Asked("GET", <<"health">>) =>
               /\ exchange.res.k = "response" /\ exchange.res.status = 200
               /\ Get(exchange.res.body, "status") = JStr("ok")
               /\ exchange.ran = NoCall
          /\ \A i \in 1..Len(handlers) :
                handlers[i].health.k = "response" =>
                    /\ handlers[i].health.status = 200
                    /\ Get(handlers[i].health.body, "status") = JStr("ok"))
    /\ [][HealthServed =>
             (host' = host /\ listener' = listener /\ bridges' = bridges
              /\ ports' = ports)]_vars

\* C15 witness: the bridge answered the health check of a tools/call and
\* then the GET /health of another client, both with 200.
C15_Witness ==
    /\ Len(handlers) = 1 /\ handlers[1].health.k = "response"
    /\ handlers[1].health.status = 200
    /\ Asked("GET", <<"health">>) /\ exchange.res.status = 200

\* C16: a POST /tools/<ToolName> with a matching name and a body that
\* parses leads to one call of executeTool with that name; the status is
\* 200 when the ExecutionResult has success true and 400 otherwise, and the
\* body is the ExecutionResult.
C16_StatusFollowsSuccess ==
    /\ PostedTool =>
          /\ exchange.ran # NoCall
          /\ exchange.ran.toolName = exchange.req.url[2]
          /\ exchange.res.k = "response"
          /\ exchange.res.status =
                IF Get(exchange.ran.result, "success") = JBool(TRUE)
                THEN 200 ELSE 400
          /\ exchange.res.body = JSONroundtrip(exchange.ran.result)
    /\ \A i \in 1..Len(handlers) :
          LET h == handlers[i] IN
          (h.posted /\ h.res.k = "response") =>
              /\ FromBridge(h.res)
              /\ h.res.status =
                    IF Get(h.res.body, "success") = JBool(TRUE) THEN 200 ELSE 400

\* C16 witness: one POST was answered 200 with success true (to the stdio
\* server) and one 400 with success false (InsertText without text).
C16_Witness ==
    /\ Len(handlers) = 1 /\ handlers[1].posted
    /\ handlers[1].res.k = "response" /\ handlers[1].res.status = 200
    /\ Get(handlers[1].res.body, "success") = JBool(TRUE)
    /\ PostedTool /\ exchange.req.url[2] = "InsertText"
    /\ exchange.req.body = EmptyBody
    /\ exchange.res.status = 400
    /\ Get(exchange.res.body, "success") = JBool(FALSE)
    /\ Get(exchange.res.body, "error") = JStr("text is required")

\* C17: a POST /tools/<ToolName> whose body is not JSON is answered with a
\* 4xx status, without a call of executeTool.
C17_MalformedIsClientError ==
    (/\ https > 0
     /\ exchange.req.method = "POST" /\ toolMatch(exchange.req.url)
     /\ exchange.req.body.k = "malformed") =>
        /\ exchange.res.k = "response"
        /\ exchange.res.status \in 400..499
        /\ exchange.ran = NoCall

\* The request is OPTIONS, GET /health, GET /tools or a POST to
\* /tools/<name> with a name the router accepts
HasRoute(req) ==
    \/ req.method = "OPTIONS"
    \/ req.method = "GET" /\ req.url = <<"health">>
    \/ req.method = "GET" /\ req.url = <<"tools">>
    \/ req.method = "POST" /\ toolMatch(req.url)

NotFoundBody == JObj(<<KV("error", JStr("Not found"))>>)

\* C18: every request that is none of the routes is answered 404
\* {error: "Not found"}, without a call of executeTool.
C18_NotFound ==
    (https > 0 /\ ~HasRoute(exchange.req)) =>
        /\ exchange.res.k = "response"
        /\ exchange.res.status = 404
        /\ exchange.res.body = NotFoundBody
        /\ exchange.ran = NoCall

\* C19: every response the bridge sends carries
\* Access-Control-Allow-Origin: *.
C19_AllowOriginAlways ==
    /\ exchange.res.k = "response" => AllowOrigin \in exchange.res.headers
    /\ \A i \in 1..Len(handlers) :
          /\ handlers[i].health.k = "response" =>
                AllowOrigin \in handlers[i].health.headers
          /\ handlers[i].res.k = "response" =>
                AllowOrigin \in handlers[i].res.headers

\* C19 witness: responses with 200 (health check), 400 (tool call) and 500
\* (a body that is not JSON) were sent, each with the header.
C19_Witness ==
    /\ Len(handlers) = 1
    /\ handlers[1].health.k = "response" /\ handlers[1].health.status = 200
    /\ handlers[1].res.k = "response" /\ handlers[1].res.status = 400
    /\ exchange.res.k = "response" /\ exchange.res.status = 500
    /\ AllowOrigin \in exchange.res.headers

\* The names the bridge executes
Registered(name) == name \in DOMAIN toolRegistry

\* { success: false, error: "Unknown tool: <name>" }
UnknownEnvelope(name) ==
    JObj(<<KV("success", JBool(FALSE)), KV("error", UnknownToolText(name))>>)

\* The step serves a POST /tools/<name> for a name that is not registered
UnknownServed ==
    \/ /\ https' # https
       /\ exchange'.req.method = "POST" /\ toolMatch(exchange'.req.url)
       /\ exchange'.req.body.k # "malformed"
       /\ ~Registered(exchange'.req.url[2])
    \/ /\ listener \in Variants
       /\ \E i \in 1..Len(handlers) :
             /\ handlers[i].at = "post" /\ handlers'[i].at # "post"
             /\ ~Registered(Str(NameOf(handlers[i])))

\* C20: executing a name that is not registered gives {success: false,
\* error: "Unknown tool: <name>"}; over HTTP it is a 400 with that body,
\* and the step leaves the host state as it is.
C20_UnknownToolEnvelope ==
    /\ [](/\ (PostedTool /\ ~Registered(exchange.req.url[2])) =>
               /\ exchange.ran.result = UnknownEnvelope(exchange.req.url[2])
               /\ exchange.res.k = "response" /\ exchange.res.status = 400
               /\ exchange.res.body = UnknownEnvelope(exchange.req.url[2])
          /\ \A i \in 1..Len(handlers) :
                LET h == handlers[i] IN
                (h.posted /\ h.res.k = "response"
                 /\ ~Registered(Str(NameOf(h)))) =>
                    /\ h.res.status = 400
                    /\ h.res.body = UnknownEnvelope(Str(NameOf(h))))
    /\ [][UnknownServed => host' = host]_vars

\* C20 witness: POST /tools/Bogus with the body null got 400 Unknown tool:
\* Bogus, and the forwarded call of FindText got 400 Unknown tool: FindText.
C20_Witness ==
    /\ PostedTool /\ exchange.req.url[2] = "Bogus"
    /\ exchange.req.body = JsonBody(JNull)
    /\ exchange.res.status = 400
    /\ Get(exchange.res.body, "error") = JStr("Unknown tool: Bogus")
    /\ Len(handlers) = 1 /\ handlers[1].posted
    /\ handlers[1].res.k = "response" /\ handlers[1].res.status = 400
    /\ Get(handlers[1].res.body, "error") = JStr("Unknown tool: FindText")

(***************************************************************************)
(* C21..C25: the ExecutionResult of a call that fails                      *)
(***************************************************************************)
\* The message of what the executor of a call threw when it ran against
\* the host state h, "" when it did not throw: in the registry variant
\* the impl runs once the validators pass, in the direct variant the case
\* of the switch reads a property of args.
Thrown(call, h) ==
    IF call.variant = "registry"
    THEN IF Registered(call.toolName)
            /\ Diagnostics(toolRegistry[call.toolName], call.args) = <<>>
         THEN toolImpls(toolRegistry[call.toolName].impl, call.args, h,
                        call.fault).message
         ELSE ""
    ELSE IF call.toolName \in ReadsArgs /\ call.args.t = "null"
         THEN NullArgsMessage ELSE ""

\* The step serves a POST /tools/<name> of another client whose executor
\* threw
ThrowServed ==
    /\ https' # https
    /\ exchange'.ran # NoCall
    /\ Thrown(exchange'.ran, host) # ""

\* C21: when the executor of a tool throws, the ExecutionResult is
\* {success: false, error: <message of what was thrown>}; the request is
\* answered 400 with that envelope, and the bridge still listens after it.
C21_ThrowIsEnvelope ==
    [][ThrowServed =>
          LET envelope == Failure(Thrown(exchange'.ran, host)) IN
          /\ exchange'.ran.result = envelope
          /\ exchange'.res.k = "response"
          /\ exchange'.res.status = 400
          /\ exchange'.res.body = envelope
          /\ listener' = listener /\ listener' \in Variants]_vars

\* C21 witness: in the registry variant atom.workspace.open rejected for
\* POST /tools/OpenFile {path: "/proj/b.js"}, and the answer was 400 with
\* the message of the rejection.
C21_Witness ==
    /\ PostedTool /\ exchange.req.url[2] = "OpenFile"
    /\ exchange.ran.variant = "registry" /\ exchange.ran.fault
    /\ exchange.res.status = 400
    /\ exchange.res.body = Failure("Failed to open /proj/b.js")
    /\ listener = "registry"

\* C22: every ExecutionResult with success false carries an error that is
\* a non-empty string, whatever the tool name, the arguments and the host
\* state.
C22_FailureCarriesError ==
    (exchange.ran # NoCall
     /\ Get(exchange.ran.result, "success") = JBool(FALSE)) =>
        LET error == Get(exchange.ran.result, "error") IN
        error.t = "str" /\ error.s # ""

\* C23: InsertText with args = {} gives success false with the error
\* "text is required", which names the field; the answer is 400 with that
\* envelope and the host state is as it was.
C23_InsertTextNeedsText ==
    /\ [](exchange.ran.toolName = "InsertText"
           /\ exchange.ran.args = JObj(<<>>) =>
              /\ exchange.ran.result = Failure("text is required")
              /\ exchange.res.status = 400
              /\ exchange.res.body = Failure("text is required"))
    /\ [][(/\ https' # https
           /\ exchange'.ran.toolName = "InsertText"
           /\ exchange'.ran.args = JObj(<<>>)) => host' = host]_vars

\* C23 witness: POST /tools/InsertText with an empty body, which parseBody
\* reads as {}, was answered 400 "text is required" by the direct variant
\* with an editor open.
C23_Witness ==
    /\ PostedTool /\ exchange.req.url[2] = "InsertText"
    /\ exchange.req.body = EmptyBody
    /\ exchange.ran.variant = "direct" /\ exchange.ran.args = JObj(<<>>)
    /\ host.editor
    /\ exchange.res.status = 400
    /\ Get(exchange.res.body, "error") = JStr("text is required")

\* The step serves POST /tools/InsertText {text: "hi"} of another client
\* while no text editor is active
InsertedWithoutEditor ==
    /\ https' # https
    /\ exchange'.ran.toolName = "InsertText"
    /\ exchange'.ran.args = JObj(<<KV("text", JStr("hi"))>>)
    /\ ~host.editor

\* The answer of the step is a 400 whose body is an ExecutionResult with
\* success false
AnsweredFailure ==
    /\ Get(exchange'.ran.result, "success") = JBool(FALSE)
    /\ exchange'.res.k = "response"
    /\ exchange'.res.status = 400
    /\ exchange'.res.body = JSONroundtrip(exchange'.ran.result)

ReturnedFalseWithoutEditor ==
    /\ https' # https
    /\ ~host.editor
    /\ \/ /\ exchange'.ran.toolName = "InsertText"
          /\ exchange'.ran.args = JObj(<<KV("text", JStr("hi"))>>)
       \/ /\ exchange'.ran.toolName = "SetSelections"
          /\ exchange'.ran.args = JSONroundtrip(OneRange)

\* C25: when an executor returns false to mean that no document is active,
\* the ExecutionResult has success true and data with the tool's verb
\* member false, and the bridge answers 200.
C25_FalseIsStillSuccess ==
    [][ReturnedFalseWithoutEditor =>
          LET result == exchange'.ran.result
              verb == toolRegistry[exchange'.ran.toolName].format
          IN  /\ Get(result, "success") = JBool(TRUE)
              /\ Get(Get(result, "data"), verb) = JBool(FALSE)
              /\ exchange'.res.status = 200]_vars

(***************************************************************************)
(* C26..C30: the stdio server                                              *)
(***************************************************************************)
\* C26: for every tools/call the fetch of GET /health is made before
\* anything decides the outcome, and when that fetch finds the bridge
\* unreachable the outcome is the bridge-unavailable error, whatever the
\* params and the tool name are.
C26_HealthCheckFirst ==
    \A i \in 1..Len(handlers) :
        LET h == handlers[i] IN
        (MethodOf(h) = JStr("tools/call") /\ h.at \in {"settled", "done"}) =>
            /\ h.health # NoFetch
            /\ Unreachable(h.health) => h.out = Throw(BridgeNotAvailable)

\* C27: a line that is valid JSON and is no JSON-RPC request object (null,
\* a number, a string, an array) leaves the process running.
C27_NonObjectLineSurvived ==
    last \in {"null", "value"} => running

\* The outcome of a call of handleRequest as its own request and its own
\* fetches give it
OwnOutcome(h) ==
    IF h.posted /\ h.res # NoFetch
    THEN handleRequestCalled(h.req, callBridge(Str(NameOf(h)), h.res))
    ELSE IF h.health # NoFetch
    THEN handleRequestChecked(h.req, checkBridge(h.health))
    ELSE handleRequest(h.req)

\* The message carries the outcome: the result, or the error's code and
\* message
Carries(msg, out) ==
    IF out.k = "return"
    THEN msg.result = out.v /\ msg.error = NoRpcError
    ELSE /\ msg.result = NoResult
         /\ msg.error = [code |-> ErrCode(out.e), message |-> ErrMessage(out.e)]

\* C28: with several requests in flight, under every interleaving of their
\* fetches each request is answered at most once and, once its handler has
\* run to the end, exactly once; the message carries the request's own id
\* and the outcome of its own call, and every message written belongs to
\* one request or is the answer to a line that does not parse.
C28_OwnResponse ==
    /\ \A i \in 1..Len(handlers) :
          LET h == handlers[i] IN
          /\ h.at # "done" => h.sent = 0
          /\ h.at \in {"settled", "done"} => h.out = OwnOutcome(h)
          /\ h.at = "done" =>
                /\ h.sent \in 1..Len(stdout)
                /\ Answer(h).id = IdOf(h)
                /\ Carries(Answer(h), OwnOutcome(h))
                /\ \A j \in 1..Len(handlers) :
                      j # i => handlers[j].sent # h.sent
    /\ \A k \in 1..Len(stdout) :
          \/ stdout[k] = ParseError
          \/ \E i \in 1..Len(handlers) : handlers[i].sent = k

\* C28 witness: two calls with the ids 1 and 2 were in flight together;
\* the second was answered first, with its result, and the first after it,
\* with the error of its own forwarded call.
C28_Witness ==
    /\ Len(handlers) = 2
    /\ handlers[1].at = "done" /\ handlers[2].at = "done"
    /\ handlers[1].posted /\ handlers[2].posted
    /\ handlers[2].sent = 1 /\ handlers[1].sent = 2
    /\ IdOf(handlers[1]) = JNum(1) /\ IdOf(handlers[2]) = JNum(2)
    /\ stdout[1].id = JNum(2) /\ stdout[1].error = NoRpcError
    /\ stdout[2].id = JNum(1) /\ stdout[2].result = NoResult

\* The methods answered without the bridge
StaticMethods == {JStr("initialize"), JStr("tools/list")}

\* What initialize and tools/list are answered with
StaticResult(method) ==
    IF method = JStr("initialize")
    THEN [protocolVersion |-> "2024-11-05",
          capabilities |-> [tools |-> JObj(<<>>)],
          serverInfo |-> [name |-> "pulsar", version |-> "0.1.0"]]
    ELSE [tools |-> tools]

\* The step starts, or sends the answer of, a call of handleRequest for
\* initialize or tools/list
StaticStep ==
    \E i \in 1..Len(handlers') :
        /\ MethodOf(handlers'[i]) \in StaticMethods
        /\ i <= Len(handlers) => handlers'[i] # handlers[i]

\* C29: handling initialize or tools/list sends no request to the bridge
\* and changes nothing but stdout: the answer is the static result,
\* whoever listens on the bridge's port, and the steps that handle the
\* request leave the host, the listener and the bridge's exchanges alone.
C29_StaticNoBridge ==
    /\ [](\A i \in 1..Len(handlers) :
             LET h == handlers[i] IN
             MethodOf(h) \in StaticMethods =>
                 /\ h.at \in {"settled", "done"}
                 /\ h.health = NoFetch /\ ~h.posted /\ h.res = NoFetch
                 /\ h.out = Return(StaticResult(MethodOf(h)))
                 /\ h.at = "done" =>
                       /\ Answer(h).id = IdOf(h)
                       /\ Answer(h).result = StaticResult(MethodOf(h))
                       /\ Answer(h).error = NoRpcError)
    /\ [][StaticStep =>
             /\ host' = host /\ listener' = listener
             /\ https' = https /\ exchange' = exchange
             /\ running' = running]_vars

\* C29 witness: initialize was answered, and then tools/list, while
\* nothing listened on the bridge's port.
C29_Witness ==
    /\ Len(handlers) = 2
    /\ MethodOf(handlers[1]) = JStr("initialize") /\ handlers[1].sent = 1
    /\ MethodOf(handlers[2]) = JStr("tools/list") /\ handlers[2].sent = 2
    /\ stdout[1].result.serverInfo.name = "pulsar"
    /\ stdout[2].result.tools = tools
    /\ listener = "none"

\* The codes of the JSON-RPC errors the stdio server declares
ErrorCodes == {-32700, -32601, -32603}

\* C30: every error message written to stdout carries one of the codes
\* -32700, -32601 and -32603.
C30_ErrorCodes ==
    \A k \in 1..Len(stdout) :
        stdout[k].error # NoRpcError => stdout[k].error.code \in ErrorCodes

\* C30 witness: a line that does not parse was answered -32700, and a call
\* whose POST got no response was answered -32603 with the message of the
\* fetch.
C30_Witness ==
    /\ Len(stdout) = 2 /\ Len(handlers) = 1
    /\ stdout[1].error.code = -32700
    /\ handlers[1].posted /\ handlers[1].res.k = "failed"
    /\ handlers[1].sent = 2
    /\ stdout[2].error = [code |-> -32603, message |-> <<"fetch failed">>]

(***************************************************************************)
(* C31..C36: errors, recovery and shutdown                                 *)
(***************************************************************************)
\* Handling the request raises an error before executeTool is called: the
\* target does not parse as a URL, or the body of a tool call is not JSON
RaisesError(req) ==
    /\ req.method # "OPTIONS"
    /\ \/ pathnameOf(req.url).k = "throw"
       \/ /\ req.method = "POST" /\ pathnameOf(req.url).k = "return"
          /\ toolMatch(pathnameOf(req.url).v)
          /\ parseBody(req.body).k = "throw"

\* C31: every request the bridge accepts gets a response, and a request
\* whose handling raises an error gets 500 {error: <message>}.
C31_ErrorsAnswered500 ==
    https > 0 =>
        /\ exchange.res.k = "response"
        /\ RaisesError(exchange.req) =>
              /\ exchange.res.status = 500
              /\ Get(exchange.res.body, "error").t = "str"

\* The addresses of the loopback interface
IsLoopback(address) == address \in {"127.0.0.1", "::1", "localhost"}

\* C32: whatever config startBridge is called with, the server listens on
\* a loopback address.
C32_LoopbackOnly ==
    \A w \in Windows :
        bridges[w].at \in {"created", "listening"} => IsLoopback(bridges[w].host)

\* From the call of stop on, the bridge of window w holds no port, so that
\* nothing of it answers GET /health
Released(w) ==
    bridges[w].at \in {"closing", "closed"} =>
        /\ bridges[w].bound = 0
        /\ \A p \in Ports : ports[p] # HeldBy(w)

C33_Recoverable ==
    /\ [](\A i, j \in 1..Len(handlers) :
             LET failed == handlers[i]
                 h == handlers[j]
             IN  (/\ i < j /\ Unreachable(failed.health)
                  /\ Fetched2xx(h.health) /\ InCatalog(NameOf(h))
                  /\ MethodOf(h) = JStr("tools/call")
                  /\ h.at \in {"settled", "done"}) =>
                     /\ h.posted
                     /\ h.out = handleRequestCalled(h.req,
                                    callBridge(Str(NameOf(h)), h.res))
                     /\ h.at = "done" =>
                           /\ Answer(h).id = IdOf(h)
                           /\ Carries(Answer(h), h.out))
    /\ [][\A i \in 1..Len(handlers) :
             (/\ Unreachable(handlers[i].health)
              /\ handlers[i].at = "settled" /\ handlers'[i].at = "done") =>
                 running' /\ host' = host /\ listener' = listener]_vars

\* C33 witness: the first call was answered -32603 after a health check
\* that got no response; the second, after a bridge had started, was
\* forwarded and answered with the result from the bridge.
C33_Witness ==
    /\ Len(handlers) = 2 /\ running
    /\ handlers[1].health.k = "failed" /\ handlers[1].sent = 1
    /\ stdout[1].error.code = -32603
    /\ handlers[2].posted /\ FromBridge(handlers[2].res)
    /\ handlers[2].res.status = 200 /\ handlers[2].sent = 2
    /\ stdout[2].id = JNum(2) /\ stdout[2].result # NoResult

\* The diagnostic of the first validator of the tool that the arguments of
\* a call fail, "" when there is none: the call names a tool the bridge
\* executes, the arguments are an object, and a field the tool requires is
\* missing or of the wrong kind.  The switch of the direct variant has its
\* own wording for ranges.
FirstDiagnostic(call) ==
    IF Registered(call.toolName) /\ call.args.t = "obj"
       /\ Diagnostics(toolRegistry[call.toolName], call.args) # <<>>
    THEN IF call.variant = "direct" /\ call.toolName = "SetSelections"
         THEN "ranges array is required"
         ELSE Diagnostics(toolRegistry[call.toolName], call.args)[1]
    ELSE ""

\* C34: when the arguments of a tool call fail validation, the result is
\* {success: false, error: <diagnostic of the first failing validator>}
\* and nothing else, the answer is 400 with it, and the step, which runs
\* no executor, leaves the host state as it was.
C34_ValidationShortCircuits ==
    [][(/\ https' # https /\ exchange'.ran # NoCall
        /\ FirstDiagnostic(exchange'.ran) # "") =>
          LET envelope ==
                  JObj(<<KV("success", JBool(FALSE)),
                         KV("error", JStr(FirstDiagnostic(exchange'.ran)))>>)
          IN  /\ exchange'.ran.result = envelope
              /\ exchange'.res.k = "response"
              /\ exchange'.res.status = 400
              /\ exchange'.res.body = envelope
              /\ host' = host]_vars

\* C34 witness: POST /tools/OpenFile with {text: "hi"}, and with the host
\* call set to fail, was answered 400 "path is required" by the direct
\* variant; no file was opened.
C34_Witness ==
    /\ PostedTool /\ exchange.req.url[2] = "OpenFile"
    /\ exchange.ran.variant = "direct" /\ exchange.ran.fault
    /\ exchange.ran.args = JObj(<<KV("text", JStr("hi"))>>)
    /\ exchange.res.status = 400
    /\ Get(exchange.res.body, "error") = JStr("path is required")
    /\ host.path # "/proj/b.js"

\* The health check of the call got a 2xx and its POST got no response:
\* the bridge stopped in between
StoppedBeforePost(h) ==
    Fetched2xx(h.health) /\ h.posted /\ h.res.k = "failed"

\* C35: a tools/call whose health check passed and whose POST found the
\* bridge gone is answered once, with its own id, the code -32603 and no
\* result; the step in which the POST fails leaves the process running
\* and the host state as it was.
C35_StoppedAfterHealth ==
    /\ [](\A i \in 1..Len(handlers) :
             LET h == handlers[i] IN
             StoppedBeforePost(h) =>
                 /\ h.at \in {"settled", "done"}
                 /\ h.out.k = "throw"
                 /\ h.at = "done" =>
                       /\ h.sent \in 1..Len(stdout)
                       /\ \A j \in 1..Len(handlers) :
                             j # i => handlers[j].sent # h.sent
                       /\ Answer(h).id = IdOf(h)
                       /\ Answer(h).result = NoResult
                       /\ Answer(h).error =
                             [code |-> -32603, message |-> <<"fetch failed">>])
    /\ [][\A i \in 1..Len(handlers) :
             (handlers[i].at = "post" /\ StoppedBeforePost(handlers'[i])) =>
                 running' /\ host' = host]_vars

\* C35 witness: the bridge answered the health check with 200, stopped,
\* and the call was answered -32603 "fetch failed" under its id.
C35_Witness ==
    /\ Len(handlers) = 1 /\ running /\ listener = "none"
    /\ handlers[1].health.k = "response" /\ handlers[1].health.status = 200
    /\ handlers[1].health.body = HealthBody
    /\ StoppedBeforePost(handlers[1]) /\ handlers[1].sent = 1
    /\ stdout[1].id = JNum(1) /\ stdout[1].error.code = -32603

(***************************************************************************)
(* C37..C39: the catalog against the executors                             *)
(***************************************************************************)
\* The entry of the catalog with this name
CatalogEntry(name) ==
    tools[CHOOSE i \in 1..Len(tools) : tools[i].name = name]

\* The names of the properties an inputSchema declares
Declared(entry) ==
    {entry.inputSchema.properties[i].name :
        i \in 1..Len(entry.inputSchema.properties)}

\* OpenFile was called with arguments that follow its inputSchema and give
\* a row and a column, and it reported success
OpenedAtRow ==
    /\ exchange.ran.toolName = "OpenFile"
    /\ exchange.ran.args.t = "obj"
    /\ \A i \in 1..Len(exchange.ran.args.o) :
          exchange.ran.args.o[i].k \in Declared(CatalogEntry("OpenFile"))
    /\ Get(exchange.ran.args, "path").t = "str"
    /\ Get(exchange.ran.args, "row").t = "num"
    /\ Get(exchange.ran.args, "column").t = "num"
    /\ Get(exchange.ran.result, "success") = JBool(TRUE)

\* C37: after OpenFile was called with path, row r and column c, as its
\* inputSchema declares them (0-indexed), and reported success, the file
\* is the active one and the cursor is at row r, column c.
C37_OpenFileHonoursRow ==
    OpenedAtRow =>
        /\ host.editor /\ host.path = Get(exchange.ran.args, "path").s
        /\ host.cursor = <<Get(exchange.ran.args, "row").n,
                           Get(exchange.ran.args, "column").n>>

\* C38: no two entries of the catalog have the same name, every name
\* matches /^[A-Z][a-zA-Z]*$/, and a tools/call that passed the catalog
\* check and whose POST reaches the bridge is routed to executeTool: the
\* answer is not 404, for the calls made and for a POST to each name of
\* the catalog in either variant.  The catalog is a constant: it is
\* examined in the states before the first line is read.
C38_CatalogNamesRouted ==
    /\ [](lines = 0 =>
            /\ \A i, j \in 1..Len(tools) : tools[i].name = tools[j].name => i = j
            /\ \A i \in 1..Len(tools) : IsToolName(tools[i].name)
            /\ \A i \in 1..Len(tools), v \in Variants :
                  requestListener(v, HttpRequest("POST", <<"tools", tools[i].name>>,
                                                 JsonBody(JObj(<<>>))),
                                  host, FALSE).res.status # 404)
    /\ [][\A i \in 1..Len(handlers) :
             (/\ i \in 1..Len(handlers')
              /\ handlers[i].at = "post" /\ handlers'[i].at # "post"
              /\ listener \in Variants) =>
                 /\ InCatalog(CallName(handlers[i].req))
                 /\ toolMatch(<<"tools", Str(CallName(handlers[i].req))>>)
                 /\ handlers'[i].res.k = "response"
                 /\ handlers'[i].res.status # 404]_vars

\* C38 witness: a tools/call for InsertText passed the health check and the
\* catalog check, and its POST was answered 200 by the bridge.
C38_Witness ==
    /\ Len(handlers) >= 1 /\ listener \in Variants
    /\ CallName(handlers[1].req) = JStr("InsertText")
    /\ handlers[1].posted /\ handlers[1].at = "settled"
    /\ handlers[1].res.k = "response" /\ handlers[1].res.status = 200

\* filePath is inside the root: the root, a separator, and more
Inside(filePath, root) ==
    /\ StartsWith(filePath, root)
    /\ Len(filePath) > Len(root)
    /\ filePath[Len(root) + 1] \in {"/", "\\"}

\* The roots of the call that contain the file, in the order of the list
Containing(call) ==
    SelectSeq(call.projectPaths, LAMBDA root : Inside(call.filePath, root))

\* The file of the call is none of the roots themselves
NotARoot(call) ==
    \A i \in 1..Len(call.projectPaths) : call.projectPaths[i] # call.filePath

\* C39: getRelativePath returns filePath as it is when no project path
\* contains it, a sibling directory whose name starts with the name of a
\* root included, and otherwise what follows the first containing root
\* and its separator.
C39_RelativeOrUnchanged ==
    (relative.called /\ NotARoot(relative)) =>
        IF Containing(relative) = <<>>
        THEN relative.result = relative.filePath
        ELSE relative.result =
               ReplaceBackslashes(Slice(relative.filePath,
                                        Len(Containing(relative)[1]) + 1))

\* C39, with the sibling directories left out: when every root of the call
\* that the file starts with contains it, getRelativePath returns what
\* follows the first containing root, or filePath when there is none.
C39_RelativeWithoutSiblings ==
    (/\ relative.called /\ NotARoot(relative)
     /\ \A i \in 1..Len(relative.projectPaths) :
           StartsWith(relative.filePath, relative.projectPaths[i]) =>
               Inside(relative.filePath, relative.projectPaths[i])) =>
        IF Containing(relative) = <<>>
        THEN relative.result = relative.filePath
        ELSE relative.result =
               ReplaceBackslashes(Slice(relative.filePath,
                                        Len(Containing(relative)[1]) + 1))
====
